---- MODULE Spec2Model ----
(***************************************************************************)
(* Model of the commit-message pipeline of my-ai-agent:                    *)
(*   - the CommitCache (src/tools/cache/commit-cache.ts),                  *)
(*   - the diff parser and the prompt-template helpers,                    *)
(*   - the analyzeCommit orchestrator with its wrapped model calls.        *)
(* Strings are sequences of tokens (a token is a TLA+ string standing for  *)
(* one or more characters); the empty string is the empty sequence.        *)
(***************************************************************************)
EXTENDS Integers, Sequences, FiniteSets, TLC

(* ------------------------------------------------------------------ *)
(* Bounds of the model                                                 *)
(* ------------------------------------------------------------------ *)
\* capacity of the CommitCache under test (constructor argument maxSize)
maxSize == 2
\* the clock Date.now() runs from 0 to MaxTime, in units of the time-to-live
MaxTime == 2
\* cap on hitCount for the direct get operations of the cache client
MaxHits == 3

(* ------------------------------------------------------------------ *)
(* Program constants                                                   *)
(* ------------------------------------------------------------------ *)
\* CommitCache.ttlMs (24 hours), in clock units
ttlMs == 1

\* JavaScript's undefined, for optional string fields
undefined == "<undefined>"

(* ------------------------------------------------------------------ *)
(* LLMResponse values                                                  *)
(* ------------------------------------------------------------------ *)
RespA == [type |-> "feat", scope |-> "api", commitMessage |-> <<"feat(api): add y">>,
          breaking |-> FALSE, details |-> "details A"]
RespB == [type |-> "fix", scope |-> undefined, commitMessage |-> <<"fix: repair z">>,
          breaking |-> TRUE, details |-> undefined]

(* ------------------------------------------------------------------ *)
(* Strings: sequences of tokens                                        *)
(* ------------------------------------------------------------------ *)
NL == "\n"
Space == " "
IsWhitespace(tok) == tok \in {Space, NL}

RECURSIVE Join(_, _)
\* Array.prototype.join(sep), sep a token
Join(ss, sep) ==
  IF ss = <<>> THEN <<>>
  ELSE IF Len(ss) = 1 THEN ss[1]
  ELSE ss[1] \o <<sep>> \o Join(Tail(ss), sep)

RECURSIVE Split(_, _)
\* String.prototype.split(sep), sep a token: always at least one piece
Split(s, sep) ==
  IF \A i \in DOMAIN s : s[i] # sep
  THEN <<s>>
  ELSE LET i == CHOOSE k \in DOMAIN s : s[k] = sep /\ \A j \in 1..(k - 1) : s[j] # sep
       IN <<SubSeq(s, 1, i - 1)>> \o Split(SubSeq(s, i + 1, Len(s)), sep)

RECURSIVE TrimStart(_)
TrimStart(s) ==
  IF s # <<>> /\ IsWhitespace(Head(s)) THEN TrimStart(Tail(s)) ELSE s

RECURSIVE TrimEnd(_)
TrimEnd(s) ==
  IF s # <<>> /\ IsWhitespace(s[Len(s)]) THEN TrimEnd(SubSeq(s, 1, Len(s) - 1)) ELSE s

\* String.prototype.trim()
Trim(s) == TrimEnd(TrimStart(s))

\* String.prototype.startsWith(prefix)
StartsWith(s, prefix) ==
  Len(s) >= Len(prefix) /\ SubSeq(s, 1, Len(prefix)) = prefix

(* ------------------------------------------------------------------ *)
(* Diff parser (src/tools/git/diff-parser.ts)                          *)
(* ------------------------------------------------------------------ *)
\* the file boundary marker 'diff --git'
DiffMarker == "diff --git"

\* DEFAULT_OPTIONS.maxLinesPerFile
maxLinesPerFile == 50

\* tokens standing for the secrets sanitizeLine looks for
LongToken == "0123456789abcdef0123456789abcdef01234567"
EmailToken == "dev@example.com"

\* sanitizeLine: the redactions, then trim
sanitizeLine(line) ==
  Trim([i \in DOMAIN line |->
          IF line[i] = LongToken THEN "[REDACTED]"
          ELSE IF line[i] = EmailToken THEN "[EMAIL]"
          ELSE line[i]])

\* file names matched by the default excludePatterns
\* ['package-lock.json', 'yarn.lock', '*.log']
shouldExcludeFile(filePath) ==
  filePath \in {<<"package-lock.json">>, <<"yarn.lock">>, <<"debug.log">>}

\* lines[0].match(/a\/(.+) b\//)?.[1] ?? '' : the text between the first 'a/'
\* and the last ' b/' after it, '' when there is no such match
HeaderPath(line) ==
  LET starts == {i \in DOMAIN line : line[i] = "a/"
                    /\ \E j \in (i + 2)..Len(line) : line[j] = " b/"}
  IN IF starts = {} THEN <<>>
     ELSE LET i == CHOOSE k \in starts : \A m \in starts : k <= m
              j == CHOOSE k \in (i + 2)..Len(line) :
                     line[k] = " b/" /\ \A m \in (k + 1)..Len(line) : line[m] # " b/"
          IN SubSeq(line, i + 1, j - 1)

\* the addition test that looks at the second character only
IsAddition_SecondCharacter(line) ==
  StartsWith(line, <<"+">>) /\ ~StartsWith(line, <<"+", "+">>)

IsAddition(line) ==
  StartsWith(line, <<"+">>) /\ ~StartsWith(line, <<"+", "+", "+">>)

IsDeletion(line) ==
  StartsWith(line, <<"-">>) /\ ~StartsWith(line, <<"-", "-", "-">>)

RECURSIVE parseChunkFrom(_, _, _, _)
\* parseChunk: the loop over the lines, with the two lists built so far
parseChunkFrom(lines, maxLines, additions, deletions) ==
  IF lines = <<>>
  THEN [additions |-> additions, deletions |-> deletions]
  ELSE LET line == Head(lines)
       IN IF IsAddition(line)
          THEN parseChunkFrom(Tail(lines), maxLines,
                 IF Len(additions) < maxLines
                 THEN Append(additions, sanitizeLine(Tail(line))) ELSE additions,
                 deletions)
          ELSE IF IsDeletion(line)
          THEN parseChunkFrom(Tail(lines), maxLines, additions,
                 IF Len(deletions) < maxLines
                 THEN Append(deletions, sanitizeLine(Tail(line))) ELSE deletions)
          ELSE parseChunkFrom(Tail(lines), maxLines, additions, deletions)

\* parseChunk that captures one line more than the cap
parseChunk_CapOffByOne(lines, maxLines) == parseChunkFrom(lines, maxLines + 1, <<>>, <<>>)

parseChunk(lines, maxLines) == parseChunkFrom(lines, maxLines, <<>>, <<>>)

\* determineChangeType that looks at the deletions only
determineChangeType_DeletionsOnly(additions, deletions) ==
  IF Len(deletions) = 0 THEN "added"
  ELSE IF Len(additions) = 0 THEN "deleted"
  ELSE "modified"

determineChangeType(additions, deletions) ==
  IF Len(additions) > 0 /\ Len(deletions) = 0 THEN "added"
  ELSE IF Len(additions) = 0 /\ Len(deletions) > 0 THEN "deleted"
  ELSE "modified"

RECURSIVE parseChunks(_, _)
\* the loop of parseDiff over the file chunks
parseChunks(fileChunks, maxLines) ==
  IF fileChunks = <<>> THEN <<>>
  ELSE LET chunk == Head(fileChunks)
           lines == Split(chunk, NL)
           filePath == HeaderPath(lines[1])
           parsed == parseChunk(lines, maxLines)
           rest == parseChunks(Tail(fileChunks), maxLines)
       IN IF Trim(chunk) = <<>> THEN rest
          ELSE IF filePath = <<>> \/ shouldExcludeFile(filePath) THEN rest
          ELSE <<[filePath |-> filePath,
                  additions |-> parsed.additions,
                  deletions |-> parsed.deletions,
                  changeType |-> determineChangeType(parsed.additions, parsed.deletions)]>>
               \o rest

parseDiffWith(diff, maxLines) == parseChunks(Split(diff, DiffMarker), maxLines)

\* parseDiff with the default options
parseDiff(diff) == parseDiffWith(diff, maxLinesPerFile)

(* ------------------------------------------------------------------ *)
(* Prompt templates (src/tools/llm/prompt-templates.ts)                *)
(* ------------------------------------------------------------------ *)
\* the file paths of the model, in the order of String comparison by code unit
PathOrder ==
  <<<<"README.md">>, <<"package-lock.json">>, <<"src/api.ts">>, <<"src/feature.ts">>,
    <<"src/index.ts">>>>

PathRank(p) == CHOOSE i \in DOMAIN PathOrder : PathOrder[i] = p

RECURSIVE Insert(_, _)
Insert(p, sorted) ==
  IF sorted = <<>> THEN <<p>>
  ELSE IF PathRank(p) < PathRank(Head(sorted)) THEN <<p>> \o sorted
  ELSE <<Head(sorted)>> \o Insert(p, Tail(sorted))

\* files.sort() that leaves the array as it is
Sort_NoOrder(files) == files

RECURSIVE Sort(_)
\* Array.prototype.sort() on file paths
Sort(files) == IF files = <<>> THEN <<>> ELSE Insert(Head(files), Sort(Tail(files)))

\* replace(/\s+/g, ' '): every maximal run of whitespace becomes one space
CollapseWhitespace(s) ==
  LET positions == [i \in DOMAIN s |-> i]
      kept == SelectSeq(positions,
                        LAMBDA i : ~IsWhitespace(s[i]) \/ i = 1 \/ ~IsWhitespace(s[i - 1]))
  IN [k \in DOMAIN kept |-> IF IsWhitespace(s[kept[k]]) THEN Space ELSE s[kept[k]]]

\* the length of the diff preview of generateCacheKey, slice(0, 100)
PreviewLength == 100

Slice(s, n) == SubSeq(s, 1, IF Len(s) < n THEN Len(s) ELSE n)

generateCacheKey(files, diff) ==
  LET fileHash == Join(Sort(files), "|")
      diffPreview == CollapseWhitespace(Slice(diff, PreviewLength))
  IN fileHash \o <<":">> \o diffPreview

\* the caller's array after generateCacheKey(files, diff): files.sort() sorts in place
generateCacheKeyFiles(files) == Sort(files)

FALLBACK_COMMIT_TEMPLATE(files, type) ==
  <<type, ": update ">> \o Join(files, ", ")

VARIABLES
  cache,    \* CommitCache.cache: the Map, as the sequence of its entries in insertion order
  now,      \* Date.now()
  lastOp,   \* the cache operation performed by the last step, with the Map before it
  runs,     \* per analyzeCommit run: its position, locals and settled outcome
  calls,    \* per run: the wrapped model calls of the batch (or the final call) it dispatched
  ghost,    \* per run: history of what the collaborators did (call counts, errors raised)
  writer,   \* per cache key: the run whose set stored the entry last
  env,      \* the collaborators: what git.diff and the model may answer, who calls analyzeCommit
  pure      \* a direct call of a pure function: its arguments, then also what it returned

vars == <<cache, now, lastOp, runs, calls, ghost, writer, env, pure>>

\* no direct call of a pure function
\* files is the caller's array, given what it held when the call was made
NoCall ==
  [fn |-> "none", diff |-> <<>>, maxLines |-> 0, files |-> <<>>, given |-> <<>>, out |-> <<>>]

(* ------------------------------------------------------------------ *)
(* CommitCache                                                         *)
(* ------------------------------------------------------------------ *)
CacheKeys(c) == {c[i].key : i \in DOMAIN c}

CacheHas(c, key) == key \in CacheKeys(c)

CacheIndex(c, key) == CHOOSE i \in DOMAIN c : c[i].key = key

CacheEntry(c, key) == c[CacheIndex(c, key)]

\* Map.delete(key): the remaining entries keep their order
MapDelete(c, key) == SelectSeq(c, LAMBDA e : e.key # key)

\* Map.set(key, entry): an existing key keeps its position, a new key goes last
MapSet(c, entry) ==
  IF CacheHas(c, entry.key)
  THEN [c EXCEPT ![CacheIndex(c, entry.key)] = entry]
  ELSE Append(c, entry)

\* a JavaScript string is truthy unless it is empty
Truthy(key) == key # <<>>

\* CommitCache.get with the expiry comparison reversed
CacheGet_ExpiryReversed(c, key, t) ==
  IF ~CacheHas(c, key)
  THEN [cache |-> c, value |-> <<>>]
  ELSE LET entry == CacheEntry(c, key)
           isExpired == t - entry.timestamp <= ttlMs
       IN IF isExpired
          THEN [cache |-> MapDelete(c, key), value |-> <<>>]
          ELSE [cache |-> [c EXCEPT ![CacheIndex(c, key)] =
                              [entry EXCEPT !.hitCount = @ + 1, !.timestamp = t]],
                value |-> <<entry.response>>]

\* CommitCache.get that reports an expired entry absent but leaves it stored
CacheGet_KeepsExpired(c, key, t) ==
  IF ~CacheHas(c, key)
  THEN [cache |-> c, value |-> <<>>]
  ELSE LET entry == CacheEntry(c, key)
           isExpired == t - entry.timestamp > ttlMs
       IN IF isExpired
          THEN [cache |-> c, value |-> <<>>]
          ELSE [cache |-> [c EXCEPT ![CacheIndex(c, key)] =
                              [entry EXCEPT !.hitCount = @ + 1, !.timestamp = t]],
                value |-> <<entry.response>>]

\* CommitCache.get that counts the hit but leaves the timestamp as it was
CacheGet_NoRefresh(c, key, t) ==
  IF ~CacheHas(c, key)
  THEN [cache |-> c, value |-> <<>>]
  ELSE LET entry == CacheEntry(c, key)
           isExpired == t - entry.timestamp > ttlMs
       IN IF isExpired
          THEN [cache |-> MapDelete(c, key), value |-> <<>>]
          ELSE [cache |-> [c EXCEPT ![CacheIndex(c, key)] =
                              [entry EXCEPT !.hitCount = @ + 1]],
                value |-> <<entry.response>>]

\* CommitCache.get: [cache |-> the Map afterwards, value |-> <<response>> or <<>> for undefined]
CacheGet(c, key, t) ==
  IF ~CacheHas(c, key)
  THEN [cache |-> c, value |-> <<>>]
  ELSE LET entry == CacheEntry(c, key)
           isExpired == t - entry.timestamp > ttlMs
       IN IF isExpired
          THEN [cache |-> MapDelete(c, key), value |-> <<>>]
          ELSE [cache |-> [c EXCEPT ![CacheIndex(c, key)] =
                              [entry EXCEPT !.hitCount = @ + 1, !.timestamp = t]],
                value |-> <<entry.response>>]

\* the loop of evictLeastUsed with <= for <: the last entry of minimal hitCount
LeastUsedIndex_LastOfTies(c) ==
  CHOOSE i \in DOMAIN c :
    /\ \A j \in DOMAIN c : c[i].hitCount <= c[j].hitCount
    /\ \A j \in (i + 1)..Len(c) : c[j].hitCount > c[i].hitCount

\* the loop of evictLeastUsed: the first entry, in iteration order, of minimal hitCount
LeastUsedIndex(c) ==
  CHOOSE i \in DOMAIN c :
    /\ \A j \in DOMAIN c : c[i].hitCount <= c[j].hitCount
    /\ \A j \in 1..(i - 1) : c[j].hitCount > c[i].hitCount

\* CommitCache.evictLeastUsed
evictLeastUsed(c) ==
  IF c = <<>>
  THEN c
  ELSE LET leastUsedKey == c[LeastUsedIndex(c)].key
       IN IF Truthy(leastUsedKey) THEN MapDelete(c, leastUsedKey) ELSE c

\* CommitCache.set that inserts first and evicts afterwards
CacheSet_EvictsAfterInsert(c, key, response, t) ==
  LET c1 == MapSet(c, [key |-> key, response |-> response, timestamp |-> t, hitCount |-> 1])
  IN IF Len(c1) > maxSize THEN evictLeastUsed(c1) ELSE c1

\* CommitCache.set that first drops the entries older than the time-to-live
CacheSet_PurgesExpired(c, key, response, t) ==
  LET c0 == SelectSeq(c, LAMBDA e : t - e.timestamp <= ttlMs)
      c1 == IF Len(c0) >= maxSize THEN evictLeastUsed(c0) ELSE c0
  IN MapSet(c1, [key |-> key, response |-> response, timestamp |-> t, hitCount |-> 1])

\* CommitCache.set
CacheSet(c, key, response, t) ==
  LET c1 == IF Len(c) >= maxSize THEN evictLeastUsed(c) ELSE c
  IN MapSet(c1, [key |-> key, response |-> response, timestamp |-> t, hitCount |-> 1])

(* ------------------------------------------------------------------ *)
(* A client of the CommitCache class: direct get and set operations    *)
(* ------------------------------------------------------------------ *)
\* keys a client may pass: any string, the empty one included
ClientKeys == {<<>>, <<"a">>, <<"b">>}
ClientResponses == {RespA, RespB}

\* value: the response passed to set, or what get returned (<<>> for undefined)
NoOp == [op |-> "none", key |-> <<>>, before |-> <<>>, value |-> <<>>]

InitCache ==
  /\ cache = <<>>
  /\ now = 0
  /\ lastOp = NoOp
  /\ runs = <<>>
  /\ calls = <<>>
  /\ ghost = <<>>
  /\ writer = <<>>
  /\ env = <<>>
  /\ pure = NoCall

ClientGet(key) ==
  /\ CacheHas(cache, key) => CacheEntry(cache, key).hitCount < MaxHits
  /\ cache' = CacheGet(cache, key, now).cache
  /\ lastOp' = [op |-> "get", key |-> key, before |-> cache,
                value |-> CacheGet(cache, key, now).value]
  /\ UNCHANGED <<now, runs, calls, ghost, writer, env, pure>>

ClientSet(key, response) ==
  /\ cache' = CacheSet(cache, key, response, now)
  /\ lastOp' = [op |-> "set", key |-> key, before |-> cache, value |-> <<response>>]
  /\ UNCHANGED <<now, runs, calls, ghost, writer, env, pure>>

Tick ==
  /\ now < MaxTime
  /\ now' = now + 1
  /\ lastOp' = NoOp
  /\ UNCHANGED <<cache, runs, calls, ghost, writer, env, pure>>

NextCache ==
  \/ \E key \in ClientKeys : ClientGet(key)
  \/ \E key \in ClientKeys, response \in ClientResponses : ClientSet(key, response)
  \/ Tick

SpecCache == InitCache /\ [][NextCache]_vars

(* ------------------------------------------------------------------ *)
(* A caller of parseDiff                                               *)
(* ------------------------------------------------------------------ *)
\* the number of lines of the diff texts passed to parseDiff
MaxDiffLines == 4
\* the small values of options.maxLinesPerFile tried, beside the default
MaxCap == 2

\* the first line of a file block: 'diff --git a/<path> b/<path>'
HeaderLine(path) == <<DiffMarker, Space, "a/", path, " b/", path>>

\* the lines a diff text is made of
DiffLines ==
  {HeaderLine("src/api.ts"), HeaderLine("package-lock.json"),
   <<"+", "x">>, <<"+", "+", "y">>, <<"+", "+", "+", Space, "b/", "src/api.ts">>,
   <<"-", Space, "z", Space>>, <<"-", "-", "w">>, <<"-", "-", "-", Space, "a/", "src/api.ts">>,
   <<Space, "context">>,
   <<"index", Space, "a/", "src/api.ts", " b/", "src/api.ts">>}

RECURSIVE SeqsUpTo(_, _)
\* the sequences of at most n elements of S
SeqsUpTo(S, n) ==
  IF n = 0 THEN {<<>>}
  ELSE LET shorter == SeqsUpTo(S, n - 1)
       IN shorter \cup {Append(q, x) : q \in shorter, x \in S}

\* the diff texts: lines joined by '\n'
DiffTexts == {Join(ls, NL) : ls \in SeqsUpTo(DiffLines, MaxDiffLines)}

InitParse ==
  /\ cache = <<>>
  /\ now = 0
  /\ lastOp = NoOp
  /\ runs = <<>>
  /\ calls = <<>>
  /\ ghost = <<>>
  /\ writer = <<>>
  /\ env = <<>>
  /\ pure \in [fn : {"none"}, diff : DiffTexts, maxLines : (0..MaxCap) \cup {maxLinesPerFile},
               files : {<<>>}, given : {<<>>}, out : {<<>>}]

\* parseDiff(diff, { maxLinesPerFile: maxLines }) is called and returns
CallParseDiff ==
  /\ pure.fn = "none"
  /\ pure' = [pure EXCEPT !.fn = "parseDiff", !.out = parseDiffWith(pure.diff, pure.maxLines)]
  /\ UNCHANGED <<cache, now, lastOp, runs, calls, ghost, writer, env>>

NextParse == CallParseDiff

SpecParse == InitParse /\ [][NextParse]_vars

(* ------------------------------------------------------------------ *)
(* Errors (src/tools/errors/commit-errors.ts)                          *)
(* ------------------------------------------------------------------ *)
Error(message) == [cls |-> "Error", message |-> message]

LLMTimeoutError(timeoutMs) ==
  [cls |-> "LLMTimeoutError",
   message |-> <<"LLM request timed out after ", ToString(timeoutMs), "ms">>]

InvalidResponseError(details) ==
  [cls |-> "InvalidResponseError", message |-> <<"Invalid LLM response: ">> \o details]

NoChangesError ==
  [cls |-> "NoChangesError", message |-> <<"No changes staged for commit">>]

SyntaxError == [cls |-> "SyntaxError", message |-> <<"Unexpected token in JSON">>]

\* a promise that rejected with error
Rejected(error) == [status |-> "rejected", via |-> "throw", error |-> error]

(* ------------------------------------------------------------------ *)
(* writeReviewToMarkdown (tools.ts) and a caller of it                 *)
(* ------------------------------------------------------------------ *)
\* String.prototype.includes for a prefix test only
Includes_PrefixOnly(s, sub) == StartsWith(s, sub)

\* String.prototype.includes(sub)
Includes(s, sub) ==
  \E i \in 1..(Len(s) - Len(sub) + 1) : SubSeq(s, i, i + Len(sub) - 1) = sub

\* filePath.includes('..')
IsTraversal(filePath) == Includes(filePath, <<".", ".">>)

\* the error the catch block of writeReviewToMarkdown throws for the error it caught
writeReviewCatch(error) == Error(<<"Failed to write review file: ">> \o error.message)

TraversalError == Error(<<"Invalid file path: directory traversal not allowed">>)

\* how writeFile may fail
WriteFailures == {Error(<<"EACCES: permission denied">>)}

\* the length of the paths passed, one token a character
MaxPath == 5
ReviewPaths == SeqsUpTo({".", "/", "r"}, MaxPath)
ReviewContents == {<<"# Review">>, <<>>}

InitReview ==
  /\ cache = <<>>
  /\ now = 0
  /\ lastOp = NoOp
  /\ runs = <<>>
  /\ calls = <<>>
  /\ ghost = <<>>
  /\ writer = <<>>
  /\ env = <<>>
  /\ pure \in [fn : {"none"}, pc : {"idle"}, filePath : ReviewPaths,
               reviewContent : ReviewContents, writeFile : {<<>>}, out : {<<>>}]

\* writeReviewToMarkdown({ filePath, reviewContent }) is called: the path check,
\* then writeFile(filePath, reviewContent, "utf-8") is invoked and awaited
CallWriteReview ==
  /\ pure.fn = "none"
  /\ pure.pc = "idle"
  /\ pure' = IF IsTraversal(pure.filePath)
             THEN [pure EXCEPT !.fn = "writeReviewToMarkdown", !.pc = "done",
                               !.out = <<Rejected(writeReviewCatch(TraversalError))>>]
             ELSE [pure EXCEPT !.fn = "writeReviewToMarkdown", !.pc = "writing",
                               !.writeFile = <<[path |-> pure.filePath,
                                                data |-> pure.reviewContent]>>]
  /\ UNCHANGED <<cache, now, lastOp, runs, calls, ghost, writer, env>>

\* writeFile resolves: the confirmation is returned
WriteFileResolves ==
  /\ pure.fn = "writeReviewToMarkdown"
  /\ pure.pc = "writing"
  /\ pure' = [pure EXCEPT !.pc = "done",
                          !.out = <<[status |-> "resolved",
                                     value |-> <<"Review written to ">> \o pure.filePath]>>]
  /\ UNCHANGED <<cache, now, lastOp, runs, calls, ghost, writer, env>>

\* writeFile rejects: the catch block wraps the error
WriteFileRejects(error) ==
  /\ pure.fn = "writeReviewToMarkdown"
  /\ pure.pc = "writing"
  /\ pure' = [pure EXCEPT !.pc = "done", !.out = <<Rejected(writeReviewCatch(error))>>]
  /\ UNCHANGED <<cache, now, lastOp, runs, calls, ghost, writer, env>>

NextReview ==
  \/ CallWriteReview
  \/ WriteFileResolves
  \/ \E error \in WriteFailures : WriteFileRejects(error)

SpecReview == InitReview /\ [][NextReview]_vars

(* ------------------------------------------------------------------ *)
(* Commit analyzer (src/tools/git/commit-analyzer.ts)                  *)
(* ------------------------------------------------------------------ *)
TIMEOUT_MS == 2000
MAX_RETRIES == 2
BATCH_SIZE == 3

\* the ChangeType enumeration checked by validateLLMResponse
ChangeTypes == {"feat", "fix", "refactor", "docs", "test", "chore", "style", "perf"}

\* !x for an optional string field
Falsy(x) == x \in {undefined, ""}

\* JSON.parse of the text the model collaborator returned
JSONparse(text) ==
  IF text.json THEN [ok |-> TRUE, val |-> text.value] ELSE [ok |-> FALSE, val |-> SyntaxError]

\* a parsed JSON value that is not an object: null, a number, a string, a boolean
JsonNull == [typeof |-> "null"]
JsonNumber == [typeof |-> "number"]

\* !response || typeof response !== 'object'
IsNotObject(response) == "typeof" \in DOMAIN response

\* validateLLMResponse without the check of the enumeration
validateLLMResponse_FieldsOnly(response) ==
  IF IsNotObject(response)
  THEN <<InvalidResponseError(<<"Response must be an object">>)>>
  ELSE IF Falsy(response.type) \/ response.commitMessage = <<>>
  THEN <<InvalidResponseError(<<"Missing required fields: type or commitMessage">>)>>
  ELSE <<>>

\* validateLLMResponse: <<>> when the response passes, else <<the error thrown>>
validateLLMResponse(response) ==
  IF IsNotObject(response)
  THEN <<InvalidResponseError(<<"Response must be an object">>)>>
  ELSE IF Falsy(response.type) \/ response.commitMessage = <<>>
  THEN <<InvalidResponseError(<<"Missing required fields: type or commitMessage">>)>>
  ELSE IF response.type \notin ChangeTypes
  THEN <<InvalidResponseError(<<"Invalid change type: ", response.type>>)>>
  ELSE <<>>

\* error.message.includes('Timeout')
IncludesTimeout(message) ==
  \E i \in DOMAIN message : message[i] \in {"Timeout after ", "Gateway Timeout"}

\* the catch block of getLLMResponse: the error it throws for the error it caught
getLLMResponseCatch(error) ==
  IF error.cls = "InvalidResponseError" THEN error
  ELSE IF error.cls = "SyntaxError"
  THEN InvalidResponseError(<<"Invalid JSON response from LLM">>)
  ELSE IF IncludesTimeout(error.message) THEN LLMTimeoutError(TIMEOUT_MS)
  ELSE error

\* getLLMResponse, once ai.generateCommitMessage(prompt) has settled with reply:
\* [ok |-> TRUE, val |-> the LLMResponse] or [ok |-> FALSE, val |-> the error thrown]
getLLMResponse(reply) ==
  IF reply.kind = "resolve"
  THEN LET parsed == JSONparse(reply.text)
       IN IF ~parsed.ok
          THEN [ok |-> FALSE, val |-> getLLMResponseCatch(parsed.val)]
          ELSE LET invalid == validateLLMResponse(parsed.val)
               IN IF invalid # <<>>
                  THEN [ok |-> FALSE, val |-> getLLMResponseCatch(invalid[1])]
                  ELSE [ok |-> TRUE, val |-> parsed.val]
  ELSE [ok |-> FALSE, val |-> getLLMResponseCatch(reply.error)]

\* the rejection of the timer of withTimeout
TimerError == Error(<<"Timeout after ", ToString(TIMEOUT_MS), "ms">>)

\* a wrapped model call withTimeout(withRetries(() => getLLMResponse(prompt), MAX_RETRIES), TIMEOUT_MS)
\* at the moment it is made: the first attempt is in flight and the race is undecided
\* wait is the delay of the backoff timer the call last set, in ms
NewCall == [outer |-> "pending", inner |-> "calling", attempt |-> 1, val |-> <<>>, wait |-> 0]

\* Math.pow(2, attempt) * 100
BackoffMs(attempt) == (2 ^ attempt) * 100

\* withRetries that gives up one attempt later
withRetries_OneMoreAttempt(w, res) ==
  IF res.ok
  THEN [w EXCEPT !.inner = "ok",
                 !.outer = IF w.outer = "pending" THEN "ok" ELSE @,
                 !.val = IF w.outer = "pending" THEN <<res.val>> ELSE @]
  ELSE IF w.attempt > MAX_RETRIES
  THEN [w EXCEPT !.inner = "err",
                 !.outer = IF w.outer = "pending" THEN "err" ELSE @,
                 !.val = IF w.outer = "pending" THEN <<res.val>> ELSE @]
  ELSE [w EXCEPT !.inner = "backoff", !.wait = BackoffMs(w.attempt)]

\* withRetries, once the attempt in flight has settled with res
withRetries(w, res) ==
  IF res.ok
  THEN [w EXCEPT !.inner = "ok",
                 !.outer = IF w.outer = "pending" THEN "ok" ELSE @,
                 !.val = IF w.outer = "pending" THEN <<res.val>> ELSE @]
  ELSE IF w.attempt >= MAX_RETRIES
  THEN [w EXCEPT !.inner = "err",
                 !.outer = IF w.outer = "pending" THEN "err" ELSE @,
                 !.val = IF w.outer = "pending" THEN <<res.val>> ELSE @]
  ELSE [w EXCEPT !.inner = "backoff", !.wait = BackoffMs(w.attempt)]

\* withTimeout whose timer decides nothing
withTimeout_NeverFires(w) == w

\* withTimeout, when its timer fires: the race is lost unless already decided
withTimeout(w) ==
  IF w.outer = "pending" THEN [w EXCEPT !.outer = "err", !.val = <<TimerError>>] ELSE w

\* response.details ?? ''
Coalesce(x, default) == IF x = undefined THEN default ELSE x

\* the analysis built without the details and the scope of the response
createAnalysisFromLLMResponse_NoSummary(response, files) ==
  [files |-> files,
   summary |-> "",
   impactedAreas |-> <<>>,
   changeTypes |-> <<[type |-> response.type, scope |-> response.scope,
                      description |-> response.commitMessage]>>,
   breakingChanges |-> response.breaking]

createAnalysisFromLLMResponse(response, files) ==
  [files |-> files,
   summary |-> Coalesce(response.details, ""),
   impactedAreas |-> IF Falsy(response.scope) THEN <<>> ELSE <<response.scope>>,
   changeTypes |-> <<[type |-> response.type, scope |-> response.scope,
                      description |-> response.commitMessage]>>,
   breakingChanges |-> response.breaking]

\* the head of createEmptyAnalysis(files = [])
createEmptyAnalysisHead(files) ==
  [files |-> files, summary |-> "", impactedAreas |-> <<>>]

\* createEmptyAnalysis
createEmptyAnalysis(files) ==
  [files |-> createEmptyAnalysisHead(files).files,
   summary |-> createEmptyAnalysisHead(files).summary,
   impactedAreas |-> createEmptyAnalysisHead(files).impactedAreas,
   changeTypes |-> <<>>,
   breakingChanges |-> FALSE]

\* the values inferChangeType(files) may take
InferredTypes == {"feat", "fix", "chore"}

FilePaths(diffs) == [i \in DOMAIN diffs |-> diffs[i].filePath]

\* diffs.map(d => `${d.additions.join('\n')}\n${d.deletions.join('\n')}`).join('\n')
DiffContent(diffs) ==
  Join([i \in DOMAIN diffs |->
          Join(diffs[i].additions, NL) \o <<NL>> \o Join(diffs[i].deletions, NL)], NL)

\* the cache key analyzeCommit and checkCommitCache compute from the parsed diffs
CacheKeyOf(diffs) == generateCacheKey(FilePaths(diffs), DiffContent(diffs))

\* checkCommitCache that never finds the entry
checkCommitCache_NeverHits(diffs, value) == <<>>

\* checkCommitCache: what it returns for the value commitCache.get gave
checkCommitCache(diffs, value) ==
  IF value = <<>> THEN <<>>
  ELSE <<[message |-> value[1].commitMessage,
          analysis |-> createAnalysisFromLLMResponse(value[1], FilePaths(diffs))]>>

\* the check for no changes left out
NoChangesStaged_Never(diffs) == FALSE

\* diffs.length === 0
NoChangesStaged(diffs) == Len(diffs) = 0

\* the fallback branch taken for a timeout only
IsRecoverable_TimeoutOnly(error) == error.cls = "LLMTimeoutError"

\* error instanceof LLMTimeoutError || error instanceof InvalidResponseError
IsRecoverable(error) == error.cls \in {"LLMTimeoutError", "InvalidResponseError"}

\* getStagedDiff's catch: the error it throws for the error git.diff raised
getStagedDiffCatch(error) == Error(<<"Failed to get staged diff: ">> \o error.message)

RECURSIVE Dedup(_)
\* [...new Set(xs)]: first occurrences, in order
Dedup(xs) ==
  IF xs = <<>> THEN <<>>
  ELSE <<Head(xs)>> \o Dedup(SelectSeq(Tail(xs), LAMBDA x : x # Head(xs)))

RECURSIVE FirstByKey_ByTypeOnly(_, _)
\* the loop of consolidateAnalysis with the type alone as the key
FirstByKey_ByTypeOnly(fileAnalyses, seen) ==
  IF fileAnalyses = <<>> THEN <<>>
  ELSE LET a == Head(fileAnalyses)
           key == <<a.type>>
       IN IF key \in seen
          THEN FirstByKey_ByTypeOnly(Tail(fileAnalyses), seen)
          ELSE <<[type |-> a.type, scope |-> a.scope, description |-> a.description]>>
               \o FirstByKey_ByTypeOnly(Tail(fileAnalyses), seen \cup {key})

RECURSIVE FirstByKey(_, _)
\* the values of the Map built by the loop of consolidateAnalysis
FirstByKey(fileAnalyses, seen) ==
  IF fileAnalyses = <<>> THEN <<>>
  ELSE LET a == Head(fileAnalyses)
           key == <<a.type, IF Falsy(a.scope) THEN "" ELSE a.scope>>
       IN IF key \in seen
          THEN FirstByKey(Tail(fileAnalyses), seen)
          ELSE <<[type |-> a.type, scope |-> a.scope, description |-> a.description]>>
               \o FirstByKey(Tail(fileAnalyses), seen \cup {key})

consolidateAnalysis(fileAnalyses) ==
  [files |-> [i \in DOMAIN fileAnalyses |-> fileAnalyses[i].file],
   summary |-> "",
   impactedAreas |-> Dedup(SelectSeq([i \in DOMAIN fileAnalyses |-> fileAnalyses[i].scope],
                                     LAMBDA scope : scope # undefined)),
   changeTypes |-> FirstByKey(fileAnalyses, {}),
   breakingChanges |-> \E i \in DOMAIN fileAnalyses : fileAnalyses[i].breaking]

\* the entry of results for a resolved per-file call
FileResult(diff, response) ==
  [file |-> diff.filePath, type |-> response.type, scope |-> response.scope,
   description |-> response.commitMessage, breaking |-> response.breaking]

\* the stored response with the summary in the place of the message
CachedResponse_SummaryAsMessage(result) ==
  LET changeType == result.analysis.changeTypes[1]
  IN [type |-> changeType.type,
      commitMessage |-> <<result.analysis.summary>>,
      breaking |-> result.analysis.breakingChanges,
      details |-> result.analysis.summary,
      scope |-> changeType.scope]

\* the stored response without the scope of the change category
CachedResponse_DropsScope(result) ==
  LET changeType == result.analysis.changeTypes[1]
  IN [type |-> changeType.type,
      commitMessage |-> result.message,
      breaking |-> result.analysis.breakingChanges,
      details |-> result.analysis.summary,
      scope |-> undefined]

\* the response analyzeCommit stores in the cache for the result it returns
CachedResponse(result) ==
  LET changeType == result.analysis.changeTypes[1]
  IN [type |-> changeType.type,
      commitMessage |-> result.message,
      breaking |-> result.analysis.breakingChanges,
      details |-> result.analysis.summary,
      scope |-> changeType.scope]

(* ------------------------------------------------------------------ *)
(* A caller of consolidateAnalysis                                     *)
(* ------------------------------------------------------------------ *)
\* the number of per-file analyses passed
MaxAnalyses == 3

\* per-file analyses: the scope may be absent, empty or a name
FileAnalyses ==
  [file : {<<"src/api.ts">>}, type : {"feat", "fix"}, scope : {undefined, "", "api"},
   description : {<<"first">>, <<"second">>}, breaking : BOOLEAN]

\* the analyses of the files of a diff, in diff order
AnalysisLists ==
  {[i \in DOMAIN as |-> [as[i] EXCEPT !.file = PathOrder[i]]] :
     as \in SeqsUpTo(FileAnalyses, MaxAnalyses)}

InitConsolidate ==
  /\ cache = <<>>
  /\ now = 0
  /\ lastOp = NoOp
  /\ runs = <<>>
  /\ calls = <<>>
  /\ ghost = <<>>
  /\ writer = <<>>
  /\ env = <<>>
  /\ pure \in [fn : {"none"}, given : AnalysisLists, out : {<<>>}]

\* consolidateAnalysis(fileAnalyses) is called and returns
CallConsolidateAnalysis ==
  /\ pure.fn = "none"
  /\ pure' = [pure EXCEPT !.fn = "consolidateAnalysis", !.out = <<consolidateAnalysis(pure.given)>>]
  /\ UNCHANGED <<cache, now, lastOp, runs, calls, ghost, writer, env>>

NextConsolidate == CallConsolidateAnalysis

SpecConsolidate == InitConsolidate /\ [][NextConsolidate]_vars

(* ------------------------------------------------------------------ *)
(* A caller of the prompt-template functions                           *)
(* ------------------------------------------------------------------ *)
\* the length of the file lists passed
MaxFiles == 3
\* the number of characters that follow the padding of a long diff text
MaxTail == 3

\* file lists in any order, repetitions included
FileLists == SeqsUpTo({<<"README.md">>, <<"src/api.ts">>, <<"src/feature.ts">>}, MaxFiles)

\* diff texts, one token a character: short ones, and ones that reach the
\* end of the preview two characters before their tail
Padding == [i \in 1..(PreviewLength - 2) |-> "x"]
KeyTexts ==
  {pad \o tail : pad \in {<<>>, Padding}, tail \in SeqsUpTo({"x", Space, NL}, MaxTail)}

InitKey ==
  /\ cache = <<>>
  /\ now = 0
  /\ lastOp = NoOp
  /\ runs = <<>>
  /\ calls = <<>>
  /\ ghost = <<>>
  /\ writer = <<>>
  /\ env = <<>>
  /\ \E files \in FileLists, diff \in KeyTexts :
       pure = [fn |-> "none", diff |-> diff, maxLines |-> 0,
               files |-> files, given |-> files, out |-> <<>>]

\* generateCacheKey(files, diff) is called and returns
CallGenerateCacheKey ==
  /\ pure.fn = "none"
  /\ pure' = [pure EXCEPT !.fn = "generateCacheKey",
                          !.out = generateCacheKey(pure.files, pure.diff),
                          !.files = generateCacheKeyFiles(pure.files)]
  /\ UNCHANGED <<cache, now, lastOp, runs, calls, ghost, writer, env>>

\* FALLBACK_COMMIT_TEMPLATE(files, type) is called and returns
CallFallbackTemplate(type) ==
  /\ pure.fn = "none"
  /\ pure' = [pure EXCEPT !.fn = "FALLBACK_COMMIT_TEMPLATE",
                          !.out = FALLBACK_COMMIT_TEMPLATE(pure.files, type)]
  /\ UNCHANGED <<cache, now, lastOp, runs, calls, ghost, writer, env>>

NextKey ==
  \/ CallGenerateCacheKey
  \/ \E type \in ChangeTypes : CallFallbackTemplate(type)

SpecKey == InitKey /\ [][NextKey]_vars

(* ------------------------------------------------------------------ *)
(* The collaborators of analyzeCommit                                  *)
(* ------------------------------------------------------------------ *)
\* what git.diff(['--cached']) may return
TextEmpty == <<>>
TextFeature ==
  <<DiffMarker, Space, "a/", "src/feature.ts", " b/", "src/feature.ts", NL,
    "+", "export function newFeature() {", NL,
    "+", "}">>
TextReadme ==
  <<DiffMarker, Space, "a/", "README.md", " b/", "README.md", NL,
    "+", "Updated API documentation">>
\* four files to analyze, and a lock file that parseDiff excludes
TextFour ==
  <<DiffMarker, Space, "a/", "src/api.ts", " b/", "src/api.ts", NL,
    "-", "function oldApi() {}", NL,
    "+", "function newApi() {}", NL,
    DiffMarker, Space, "a/", "package-lock.json", " b/", "package-lock.json", NL,
    "+", "lockfileVersion", NL>>
  \o TextReadme \o <<NL>> \o TextFeature \o
  <<NL, DiffMarker, Space, "a/", "src/index.ts", " b/", "src/index.ts", NL,
    "-", "console.log(token)", NL>>

\* how git.diff may fail
GitFailures == {Error(<<"fatal: not a git repository">>)}

\* what ai.generateCommitMessage(prompt) may settle with
NoText == [json |-> FALSE, value |-> <<>>]
NoError == [cls |-> "none", message |-> <<>>]
ReplyJson(response) ==
  [kind |-> "resolve", text |-> [json |-> TRUE, value |-> response], error |-> NoError]
ReplyMalformed == [kind |-> "resolve", text |-> NoText, error |-> NoError]
\* JSON texts that are not an LLMResponse
RespNoType == [RespA EXCEPT !.type = undefined, !.commitMessage = <<"add y">>]
RespEmptyType == [RespA EXCEPT !.type = "", !.commitMessage = <<": add y">>]
RespNoMessage == [RespB EXCEPT !.commitMessage = <<>>]
RespBadType == [RespA EXCEPT !.type = "feature", !.commitMessage = <<"feature(api): add y">>]
ReplyServiceError ==
  [kind |-> "reject", text |-> NoText, error |-> Error(<<"AI service unavailable">>)]
ReplyServiceTimeout ==
  [kind |-> "reject", text |-> NoText, error |-> Error(<<"Gateway Timeout">>)]

\* the behaviours of the model collaborator: the replies it may give in one
\* execution (in each of them a call may also stay unsettled until its timer fires)
ModelModes ==
  {{ReplyJson(RespA), ReplyJson(RespB)},
   {ReplyMalformed},
   {ReplyServiceError},
   {ReplyServiceTimeout},
   {ReplyJson(RespA), ReplyMalformed}}

\* a model that answers with JSON of the wrong shape, and sometimes with a response
InvalidModes ==
  {{ReplyJson(RespA), ReplyJson(JsonNull), ReplyJson(JsonNumber), ReplyJson(RespNoType),
    ReplyJson(RespEmptyType), ReplyJson(RespNoMessage), ReplyJson(RespBadType)}}

(* ------------------------------------------------------------------ *)
(* analyzeCommit as a state machine                                    *)
(* ------------------------------------------------------------------ *)
\* number of analyzeCommit runs, which may overlap
NRuns == 2
Runs == 1..NRuns

InitRun ==
  [pc |-> "idle", diffs |-> <<>>, key |-> <<>>, cached |-> <<>>, i |-> 0,
   results |-> <<>>, outcome |-> <<>>]

InitGhost ==
  [modelCalls |-> 0, diffCalls |-> 0, timerWon |-> FALSE,
   parsed |-> <<>>, checked |-> FALSE, sawLive |-> FALSE, sawWriter |-> 0,
   gitError |-> <<>>, caught |-> <<>>, final |-> <<>>, settled |-> <<>>,
   refetched |-> <<>>]

\* overlapping runs on small diffs, or one run on a diff of more than one batch,
\* or one run on one file with a model that answers with JSON of the wrong shape
Environments ==
  [replies : ModelModes, texts : {{TextEmpty, TextFeature, TextReadme}}, callers : {Runs}]
  \cup [replies : ModelModes, texts : {{TextFour}}, callers : {{1}}]
  \cup [replies : InvalidModes, texts : {{TextFeature}}, callers : {{1}}]

Init ==
  /\ cache = <<>>
  /\ now = 0
  /\ lastOp = NoOp
  /\ runs = [r \in Runs |-> InitRun]
  /\ calls = [r \in Runs |-> <<>>]
  /\ ghost = [r \in Runs |-> InitGhost]
  /\ writer = <<>>
  /\ env \in Environments
  /\ pure = NoCall

Resolved(via, message, analysis) ==
  [status |-> "resolved", via |-> via, message |-> message, analysis |-> analysis]

\* an entry is stored under key and its age does not exceed the time-to-live
IsLive(c, key, t) ==
  \E i \in DOMAIN c : c[i].key = key /\ t - c[i].timestamp <= ttlMs

\* the catch block of analyzeCommit entered with error by run r, whose record,
\* calls and history are run, cs and g after the step that threw
Catch(r, run, error, cs, g) ==
  /\ calls' = [calls EXCEPT ![r] = cs]
  /\ IF error.cls = "NoChangesError"
     THEN /\ runs' = [runs EXCEPT ![r] =
                 [run EXCEPT !.pc = "done",
                             !.outcome = <<Resolved("nochanges", error.message,
                                                    createEmptyAnalysis(<<>>))>>]]
          /\ ghost' = [ghost EXCEPT ![r] = [g EXCEPT !.caught = <<error>>]]
     ELSE IF IsRecoverable(error)
     THEN \* await getStagedDiff(rootDir) once more
          /\ runs' = [runs EXCEPT ![r] = [run EXCEPT !.pc = "fallback"]]
          /\ ghost' = [ghost EXCEPT ![r] =
                 [g EXCEPT !.caught = <<error>>, !.diffCalls = @ + 1]]
     ELSE /\ runs' = [runs EXCEPT ![r] =
                 [run EXCEPT !.pc = "done", !.outcome = <<Rejected(error)>>]]
          /\ ghost' = [ghost EXCEPT ![r] = [g EXCEPT !.caught = <<error>>]]

\* a batch that takes the first diff of the slice only
Batch_FirstOnly(diffs, i) ==
  [s \in 1..(IF Len(diffs) - i < 1 THEN Len(diffs) - i ELSE 1) |-> NewCall]

\* a batch that takes one diff more than BATCH_SIZE
Batch_OneMore(diffs, i) ==
  [s \in 1..(IF Len(diffs) - i < BATCH_SIZE + 1 THEN Len(diffs) - i ELSE BATCH_SIZE + 1) |->
     NewCall]

\* the wrapped calls of the batch of processDiffsConcurrently that starts at index i
Batch(diffs, i) ==
  [s \in 1..(IF Len(diffs) - i < BATCH_SIZE THEN Len(diffs) - i ELSE BATCH_SIZE) |-> NewCall]

\* analyzeCommit is called: getStagedDiff calls git.diff
Start(r) ==
  /\ r \in env.callers
  /\ runs[r].pc = "idle"
  /\ runs' = [runs EXCEPT ![r].pc = "diff"]
  /\ ghost' = [ghost EXCEPT ![r].diffCalls = @ + 1]
  /\ lastOp' = NoOp
  /\ UNCHANGED <<cache, now, calls, writer, env, pure>>

\* git.diff resolves with text: parseDiff, the check for no changes, checkCommitCache
DiffResolves(r, text) ==
  /\ runs[r].pc = "diff"
  /\ LET diffs == parseDiff(text)
         key == CacheKeyOf(diffs)
         got == CacheGet(cache, key, now)
     IN IF NoChangesStaged(diffs)
        THEN /\ Catch(r, runs[r], NoChangesError, calls[r],
                      [ghost[r] EXCEPT !.parsed = <<Len(diffs)>>])
             /\ lastOp' = NoOp
             /\ UNCHANGED <<cache, now, writer, env, pure>>
        ELSE /\ runs' = [runs EXCEPT ![r].pc = "checked", ![r].diffs = diffs,
                                     ![r].key = key,
                                     ![r].cached = checkCommitCache(diffs, got.value)]
             /\ cache' = got.cache
             /\ lastOp' = [op |-> "get", key |-> key, before |-> cache, value |-> got.value]
             /\ ghost' = [ghost EXCEPT ![r].parsed = <<Len(diffs)>>,
                                       ![r].checked = TRUE,
                                       ![r].sawLive = IsLive(cache, key, now),
                                       ![r].sawWriter =
                                          IF IsLive(cache, key, now) THEN writer[key] ELSE 0]
             /\ UNCHANGED <<now, calls, writer, env, pure>>

\* git.diff rejects: getStagedDiff throws, analyzeCommit's catch rethrows
DiffRejects(r, error) ==
  /\ runs[r].pc = "diff"
  /\ Catch(r, runs[r], getStagedDiffCatch(error), calls[r],
           [ghost[r] EXCEPT !.gitError = <<error>>])
  /\ lastOp' = NoOp
  /\ UNCHANGED <<cache, now, writer, env, pure>>

\* after await checkCommitCache: return the cached result, or generateCommitMessage
\* dispatches the first batch of processDiffsConcurrently
AfterCacheCheck(r) ==
  /\ runs[r].pc = "checked"
  /\ IF runs[r].cached # <<>>
     THEN /\ runs' = [runs EXCEPT ![r].pc = "done",
                        ![r].outcome = <<Resolved("cache", runs[r].cached[1].message,
                                                  runs[r].cached[1].analysis)>>]
          /\ UNCHANGED <<calls, ghost>>
     ELSE /\ runs' = [runs EXCEPT ![r].pc = "batch", ![r].i = 0]
          /\ calls' = [calls EXCEPT ![r] = Batch(runs[r].diffs, 0)]
          /\ ghost' = [ghost EXCEPT ![r].modelCalls = @ + Len(Batch(runs[r].diffs, 0))]
  /\ lastOp' = NoOp
  /\ UNCHANGED <<cache, now, writer, env, pure>>

\* the continuation of run r once its wrapped calls have become cs
Resume(r, cs, g) ==
  LET run == runs[r]
      failed == {s \in DOMAIN cs : cs[s].outer = "err"}
      allOk == \A s \in DOMAIN cs : cs[s].outer = "ok"
  IN
  IF run.pc \in {"batch", "final"} /\ failed # {}
  THEN \* Promise.all, or the await of the final call, rejects
       /\ Catch(r, run, cs[CHOOSE s \in failed : TRUE].val[1], cs, g)
       /\ lastOp' = NoOp
       /\ UNCHANGED <<cache, now, writer, env, pure>>
  ELSE IF run.pc = "batch" /\ allOk
  THEN LET results == run.results \o
                        [s \in DOMAIN cs |-> FileResult(run.diffs[run.i + s], cs[s].val[1])]
       IN IF run.i + BATCH_SIZE < Len(run.diffs)
          THEN \* the pause between two batches
               /\ runs' = [runs EXCEPT ![r] = [run EXCEPT !.pc = "pause", !.results = results]]
               /\ calls' = [calls EXCEPT ![r] = <<>>]
               /\ ghost' = [ghost EXCEPT ![r] = g]
               /\ lastOp' = NoOp
               /\ UNCHANGED <<cache, now, writer, env, pure>>
          ELSE \* consolidateAnalysis, then the multi-change call
               /\ runs' = [runs EXCEPT ![r] = [run EXCEPT !.pc = "final", !.results = results]]
               /\ calls' = [calls EXCEPT ![r] = <<NewCall>>]
               /\ ghost' = [ghost EXCEPT ![r] = [g EXCEPT !.modelCalls = @ + 1]]
               /\ lastOp' = NoOp
               /\ UNCHANGED <<cache, now, writer, env, pure>>
  ELSE IF run.pc = "final" /\ allOk
  THEN \* generateCommitMessage returns; analyzeCommit updates the cache and returns
       LET llmResponse == cs[1].val[1]
           result == [message |-> llmResponse.commitMessage,
                      analysis |-> createAnalysisFromLLMResponse(llmResponse,
                                                                  FilePaths(run.diffs))]
           cacheKey == CacheKeyOf(run.diffs)
       IN /\ runs' = [runs EXCEPT ![r] =
                 [run EXCEPT !.pc = "done",
                             !.outcome = <<Resolved("model", result.message, result.analysis)>>]]
          /\ calls' = [calls EXCEPT ![r] = cs]
          /\ ghost' = [ghost EXCEPT ![r] = g]
          /\ cache' = CacheSet(cache, cacheKey, CachedResponse(result), now)
          /\ lastOp' = [op |-> "set", key |-> cacheKey, before |-> cache,
                        value |-> <<CachedResponse(result)>>]
          /\ writer' = [k \in DOMAIN writer \cup {cacheKey} |->
                          IF k = cacheKey THEN r ELSE writer[k]]
          /\ UNCHANGED <<now, env, pure>>
  ELSE /\ runs' = runs
       /\ calls' = [calls EXCEPT ![r] = cs]
       /\ ghost' = [ghost EXCEPT ![r] = g]
       /\ lastOp' = NoOp
       /\ UNCHANGED <<cache, now, writer, env, pure>>

\* ai.generateCommitMessage settles for the attempt in flight of call s of run r
ModelSettles(r, s, reply) ==
  /\ s \in DOMAIN calls[r]
  /\ calls[r][s].inner = "calling"
  /\ LET g == IF reply.kind = "resolve"
              THEN [ghost[r] EXCEPT
                      !.settled = <<[text |-> reply.text, res |-> getLLMResponse(reply)]>>]
              ELSE ghost[r]
     IN Resume(r, [calls[r] EXCEPT ![s] = withRetries(@, getLLMResponse(reply))],
               IF runs[r].pc = "final" /\ reply.kind = "resolve" /\ reply.text.json
               THEN [g EXCEPT !.final = <<reply.text.value>>]
               ELSE g)

\* the backoff of withRetries has elapsed: the next attempt calls the model
BackoffElapses(r, s) ==
  /\ s \in DOMAIN calls[r]
  /\ calls[r][s].inner = "backoff"
  /\ calls' = [calls EXCEPT ![r][s].inner = "calling", ![r][s].attempt = @ + 1]
  /\ ghost' = [ghost EXCEPT ![r].modelCalls = @ + 1]
  /\ lastOp' = NoOp
  /\ UNCHANGED <<cache, now, runs, writer, env, pure>>

\* the timer of withTimeout fires before the wrapped call has settled
TimerFires(r, s) ==
  /\ s \in DOMAIN calls[r]
  /\ calls[r][s].outer = "pending"
  /\ Resume(r, [calls[r] EXCEPT ![s] = withTimeout(@)],
            IF runs[r].pc \in {"batch", "final"}
            THEN [ghost[r] EXCEPT !.timerWon = TRUE]
            ELSE ghost[r])

\* the pause between two batches has elapsed: the next batch is dispatched
PauseElapses(r) ==
  /\ runs[r].pc = "pause"
  /\ runs' = [runs EXCEPT ![r].pc = "batch", ![r].i = @ + BATCH_SIZE]
  /\ calls' = [calls EXCEPT ![r] = Batch(runs[r].diffs, runs[r].i + BATCH_SIZE)]
  /\ ghost' = [ghost EXCEPT ![r].modelCalls =
                  @ + Len(Batch(runs[r].diffs, runs[r].i + BATCH_SIZE))]
  /\ lastOp' = NoOp
  /\ UNCHANGED <<cache, now, writer, env, pure>>

\* the second getStagedDiff, of the fallback branch, resolves
FallbackDiffResolves(r, text, type) ==
  /\ runs[r].pc = "fallback"
  /\ LET files == FilePaths(parseDiff(text))
     IN runs' = [runs EXCEPT ![r].pc = "done",
                   ![r].outcome = <<Resolved("fallback", FALLBACK_COMMIT_TEMPLATE(files, type),
                                             createEmptyAnalysis(files))>>]
  /\ ghost' = [ghost EXCEPT ![r].refetched = <<FilePaths(parseDiff(text))>>]
  /\ lastOp' = NoOp
  /\ UNCHANGED <<cache, now, calls, writer, env, pure>>

\* the second getStagedDiff rejects: the catch block itself throws
FallbackDiffRejects(r, error) ==
  /\ runs[r].pc = "fallback"
  /\ runs' = [runs EXCEPT ![r].pc = "done",
                          ![r].outcome = <<Rejected(getStagedDiffCatch(error))>>]
  /\ ghost' = [ghost EXCEPT ![r].gitError = <<error>>]
  /\ lastOp' = NoOp
  /\ UNCHANGED <<cache, now, calls, writer, env, pure>>

Slots == 1..BATCH_SIZE

Next ==
  \/ \E r \in Runs : Start(r)
  \/ \E r \in Runs, text \in env.texts : DiffResolves(r, text)
  \/ \E r \in Runs, error \in GitFailures : DiffRejects(r, error)
  \/ \E r \in Runs : AfterCacheCheck(r)
  \/ \E r \in Runs, s \in Slots, reply \in env.replies : ModelSettles(r, s, reply)
  \/ \E r \in Runs, s \in Slots : BackoffElapses(r, s)
  \/ \E r \in Runs, s \in Slots : TimerFires(r, s)
  \/ \E r \in Runs : PauseElapses(r)
  \/ \E r \in Runs, text \in env.texts, type \in InferredTypes :
       FallbackDiffResolves(r, text, type)
  \/ \E r \in Runs, error \in GitFailures : FallbackDiffRejects(r, error)
  \/ Tick

Spec == Init /\ [][Next]_vars

\* the steps the scheduling of the program guarantees: the continuation of a
\* promise that has settled, the firing of a timer that was set, and (the
\* premise of the liveness claims) git.diff settling one way or the other. The
\* model collaborator is under no obligation: a call of it may stay unsettled
\* for ever.
Scheduled ==
  \E r \in Runs :
    \/ AfterCacheCheck(r)
    \/ \E s \in Slots : BackoffElapses(r, s)
    \/ \E s \in Slots : TimerFires(r, s)
    \/ PauseElapses(r)
    \/ \E error \in GitFailures : DiffRejects(r, error)
    \/ \E error \in GitFailures : FallbackDiffRejects(r, error)
    \/ \E text \in env.texts : DiffResolves(r, text)
    \/ \E text \in env.texts, type \in InferredTypes : FallbackDiffResolves(r, text, type)

\* as long as such a step is possible, one is taken
Fairness == WF_vars(Scheduled)

\* the executions checked for progress: one run on a diff of more than one
\* batch, one run on a small diff against every model, or two overlapping runs
\* on one file against a model that answers well
LiveEnvironments ==
  [replies : ModelModes, texts : {{TextFour}}, callers : {{1}}]
  \cup [replies : ModelModes \cup InvalidModes,
         texts : {{TextEmpty, TextFeature}}, callers : {{1}}]
  \cup [replies : {{ReplyJson(RespA)}}, texts : {{TextFeature}}, callers : {Runs}]

InitLive ==
  /\ cache = <<>>
  /\ now = 0
  /\ lastOp = NoOp
  /\ runs = [r \in Runs |-> InitRun]
  /\ calls = [r \in Runs |-> <<>>]
  /\ ghost = [r \in Runs |-> InitGhost]
  /\ writer = <<>>
  /\ env \in LiveEnvironments
  /\ pure = NoCall

SpecLive == InitLive /\ [][Next]_vars /\ Fairness

(* ------------------------------------------------------------------ *)
(* Claims about the CommitCache                                        *)
(* ------------------------------------------------------------------ *)
MinHits(c) == CHOOSE h \in {c[i].hitCount : i \in DOMAIN c} :
                \A i \in DOMAIN c : h <= c[i].hitCount

\* C9: after any sequence of get and set operations on a CommitCache of capacity
\* maxSize, the number of stored entries never exceeds maxSize.
C9_SizeNeverExceedsMaxSize == Len(cache) <= maxSize

\* C10: eviction is least-frequently-used: a set on a store at capacity removes
\* exactly one entry before inserting, and that entry's hitCount is minimal among
\* the entries stored before the set, whatever the timestamps; every other entry
\* stays as it was.
C10_SetAtCapacityEvictsOneLeastFrequentlyUsed ==
  (lastOp.op = "set" /\ Len(lastOp.before) >= maxSize) =>
    \E i \in DOMAIN lastOp.before :
      LET victim == lastOp.before[i]
          rest == MapDelete(lastOp.before, victim.key)
      IN /\ victim.hitCount = MinHits(lastOp.before)
         /\ CacheKeys(cache) = CacheKeys(rest) \cup {lastOp.key}
         /\ \A j \in DOMAIN rest :
              rest[j].key # lastOp.key => CacheEntry(cache, rest[j].key) = rest[j]

\* a get of the key just set, at any time t before the TTL has elapsed, returns
\* the response that was set and leaves the entry with hitCount 2
SetThenGetWithinTTL ==
  lastOp.op = "set" =>
    \A t \in now..(now + ttlMs) :
      LET got == CacheGet(cache, lastOp.key, t)
      IN /\ got.value = lastOp.value
         /\ CacheEntry(got.cache, lastOp.key).hitCount = 2

\* a step that performs get(k) right after set(k, r)
SetThenGetStep ==
  (lastOp.op = "set" /\ lastOp'.op = "get" /\ lastOp'.key = lastOp.key) =>
    /\ lastOp'.value = lastOp.value
    /\ CacheEntry(cache', lastOp.key).hitCount = 2

\* C11: set(k, r) followed by get(k) before the TTL elapses returns r, and the
\* entry's hitCount is then 2, also when the set was made on a store at capacity.
C11_SetThenGetRoundTrip == []SetThenGetWithinTTL /\ [][SetThenGetStep]_vars

\* a get that returned the response of an entry set on a full store
C11_Witness ==
  /\ lastOp.op = "get" /\ lastOp.value # <<>>
  /\ Len(lastOp.before) >= maxSize
  /\ CacheEntry(lastOp.before, lastOp.key).hitCount = 1
  /\ CacheIndex(lastOp.before, lastOp.key) = Len(lastOp.before)
  /\ CacheEntry(cache, lastOp.key).hitCount = 2

\* C12: a get(k) performed when more than the TTL has elapsed since the entry's
\* timestamp returns absent and removes the entry (one entry fewer, and k is
\* absent for the next get); an entry whose age is at most the TTL is returned.
C12_GetExpiresByAge ==
  (lastOp.op = "get" /\ CacheHas(lastOp.before, lastOp.key)) =>
    LET entry == CacheEntry(lastOp.before, lastOp.key)
    IN IF now - entry.timestamp > ttlMs
       THEN /\ lastOp.value = <<>>
            /\ ~CacheHas(cache, lastOp.key)
            /\ Len(cache) = Len(lastOp.before) - 1
            /\ CacheGet(cache, lastOp.key, now).value = <<>>
       ELSE /\ lastOp.value = <<entry.response>>
            /\ CacheHas(cache, lastOp.key)

\* a get that found an entry older than the TTL
C12_Witness ==
  /\ lastOp.op = "get" /\ CacheHas(lastOp.before, lastOp.key)
  /\ now - CacheEntry(lastOp.before, lastOp.key).timestamp > ttlMs
  /\ lastOp.value = <<>> /\ Len(cache) < Len(lastOp.before)

\* the entries of c stored under other keys than key, in their order
Others(c, key) == SelectSeq(c, LAMBDA e : e.key # key)

\* C29: a live get refreshes the entry's timestamp and increments its hitCount
\* by exactly 1, so that expiry is measured from the later of insertion and
\* last live access: an entry accessed by get at intervals no longer than the
\* TTL never expires, however long ago it was inserted; a get on an absent or
\* expired key changes no other entry.
C29_LiveGetRefreshes ==
  lastOp.op = "get" =>
    /\ Others(cache, lastOp.key) = Others(lastOp.before, lastOp.key)
    /\ (CacheHas(lastOp.before, lastOp.key)
          /\ now - CacheEntry(lastOp.before, lastOp.key).timestamp <= ttlMs) =>
         LET entry == CacheEntry(lastOp.before, lastOp.key)
         IN /\ CacheHas(cache, lastOp.key)
            /\ CacheEntry(cache, lastOp.key) =
                 [response |-> entry.response, key |-> entry.key,
                  timestamp |-> now, hitCount |-> entry.hitCount + 1]
            /\ CacheIndex(cache, lastOp.key) = CacheIndex(lastOp.before, lastOp.key)
            /\ \A t \in now..(now + ttlMs) :
                 CacheGet(cache, lastOp.key, t).value = <<entry.response>>

\* a live get of an entry that was inserted more than the TTL ago and has been
\* read in between
C29_Witness ==
  /\ lastOp.op = "get" /\ lastOp.value # <<>>
  /\ CacheHas(cache, lastOp.key)
  /\ CacheEntry(cache, lastOp.key).hitCount = 3
  /\ CacheEntry(cache, lastOp.key).timestamp = 2
  /\ CacheEntry(lastOp.before, lastOp.key).timestamp = 1

(* ------------------------------------------------------------------ *)
(* Claims about analyzeCommit                                          *)
(* ------------------------------------------------------------------ *)
Done(r) == runs[r].pc = "done"
Outcome(r) == runs[r].outcome[1]

\* the result is the deterministic fallback for the file list it reports:
\* '<type>: update <comma-joined files>', no change categories, not breaking
IsFallbackResult(o, types) ==
  /\ o.status = "resolved"
  /\ \E type \in types : o.message = <<type, ": update ">> \o Join(o.analysis.files, ", ")
  /\ o.analysis.changeTypes = <<>>
  /\ o.analysis.breakingChanges = FALSE

\* the file lists the staged diff may have
StagedFileLists == {FilePaths(parseDiff(text)) : text \in env.texts}

\* C1: when a run finds, at its cache check, a live entry for its staged diff
\* (written by a run that succeeded via the model path, neither expired nor
\* evicted), it issues no model call and returns the message the writing run returned.
C1_LiveEntryServesSecondCall ==
  \A b \in Runs :
    ghost[b].sawLive =>
      LET a == ghost[b].sawWriter
      IN /\ a \in Runs /\ Done(a) /\ Outcome(a).via = "model"
         /\ runs[a].key = runs[b].key
         /\ ghost[b].modelCalls = 0
         /\ runs[b].pc \in {"checked", "done"}
         /\ Done(b) => /\ Outcome(b).status = "resolved"
                       /\ Outcome(b).message = Outcome(a).message

C1_Witness ==
  \E b \in Runs : ghost[b].sawLive /\ Done(b) /\ Outcome(b).via = "cache"

\* C2: when the model returns unparseable text on every attempt (and the wrapped
\* call is rejected for it, not by its timer, and the staged diff can be read),
\* analyzeCommit does not reject: it returns '<type>: update <staged files>' with
\* empty changeTypes and breakingChanges false.
C2_MalformedOnEveryAttemptFallsBack ==
  \A r \in Runs :
    (/\ env.replies = {ReplyMalformed}
     /\ Done(r) /\ ghost[r].modelCalls > 0
     /\ ~ghost[r].timerWon /\ ghost[r].gitError = <<>>) =>
      /\ \E s \in DOMAIN calls[r] :
           calls[r][s].outer = "err" /\ calls[r][s].attempt = MAX_RETRIES
      /\ Outcome(r).via = "fallback"
      /\ IsFallbackResult(Outcome(r), ChangeTypes)
      /\ Outcome(r).analysis.files \in StagedFileLists

C2_Witness ==
  \E r \in Runs :
    /\ env.replies = {ReplyMalformed} /\ Done(r) /\ ghost[r].modelCalls > 0
    /\ ~ghost[r].timerWon /\ ghost[r].gitError = <<>>
    /\ Outcome(r).via = "fallback" /\ Outcome(r).analysis.files # <<>>

\* C3: when a wrapped model call loses the race against its timer, the failure
\* is an LLMTimeoutError and analyzeCommit recovers: it returns the fallback
\* result instead of rejecting.
C3_TimerLossIsRecovered ==
  \A r \in Runs :
    (ghost[r].timerWon /\ ghost[r].gitError = <<>>) =>
      /\ ghost[r].caught[1].cls = "LLMTimeoutError"
      /\ Done(r) => IsFallbackResult(Outcome(r), ChangeTypes)

\* C4: when the model rejects every call with a service error, analyzeCommit
\* resolves: the message starts with feat, fix or chore and lists the staged
\* files, which analysis.files contains.
C4_ServiceErrorFallsBack ==
  \A r \in Runs :
    (/\ env.replies = {ReplyServiceError}
     /\ Done(r) /\ ghost[r].modelCalls > 0
     /\ ~ghost[r].timerWon /\ ghost[r].gitError = <<>>) =>
      /\ IsFallbackResult(Outcome(r), {"feat", "fix", "chore"})
      /\ Outcome(r).analysis.files \in StagedFileLists

\* C5: when git.diff fails, analyzeCommit rejects with the very error git.diff
\* raised, unmodified.
C5_GitErrorPropagatesUnmodified ==
  \A r \in Runs :
    (Done(r) /\ ghost[r].gitError # <<>>) =>
      /\ Outcome(r).status = "rejected"
      /\ Outcome(r).error = ghost[r].gitError[1]

\* C6: when the staged diff parses to zero records, analyzeCommit returns
\* 'No changes staged for commit' with an empty file list and calls the model
\* not once.
C6_NoChangesIsANormalResult ==
  \A r \in Runs :
    ghost[r].parsed = <<0>> =>
      /\ Done(r)
      /\ Outcome(r).status = "resolved"
      /\ Outcome(r).message = <<"No changes staged for commit">>
      /\ Outcome(r).analysis.files = <<>>
      /\ ghost[r].modelCalls = 0

C6_Witness ==
  \E r \in Runs : ghost[r].parsed = <<0>> /\ Done(r) /\ Outcome(r).via = "nochanges"

\* C7: on the model path the returned message is the commitMessage of the final
\* (multi-change) response and the analysis is built from that response alone:
\* summary from details, impactedAreas from scope, one changeTypes entry
\* (type, scope, commitMessage), breakingChanges its breaking flag.
C7_FinalResponseIsAuthoritative ==
  \A r \in Runs :
    (Done(r) /\ Outcome(r).via = "model") =>
      LET f == ghost[r].final[1]
          o == Outcome(r)
      IN /\ o.message = f.commitMessage
         /\ o.analysis.files = FilePaths(runs[r].diffs)
         /\ o.analysis.summary = (IF f.details = undefined THEN "" ELSE f.details)
         /\ o.analysis.impactedAreas =
              (IF f.scope \in {undefined, ""} THEN <<>> ELSE <<f.scope>>)
         /\ o.analysis.changeTypes =
              <<[type |-> f.type, scope |-> f.scope, description |-> f.commitMessage]>>
         /\ o.analysis.breakingChanges = f.breaking

\* a model-path result that differs from the draft consolidation of the per-file results
C7_Witness ==
  \E r \in Runs :
    /\ Done(r) /\ Outcome(r).via = "model"
    /\ Len(runs[r].results) > BATCH_SIZE
    /\ consolidateAnalysis(runs[r].results).breakingChanges
    /\ ~Outcome(r).analysis.breakingChanges
    /\ Len(consolidateAnalysis(runs[r].results).changeTypes) > 1

\* C8 as stated: of the runs on an identical staged diff within one TTL window,
\* overlapping ones included, at most one calls the model.
C8_AtMostOneRunCallsModel ==
  now <= ttlMs =>
    \A a, b \in Runs :
      (a # b /\ ghost[a].checked /\ ghost[b].checked /\ runs[a].key = runs[b].key) =>
        ~(ghost[a].modelCalls > 0 /\ ghost[b].modelCalls > 0)

\* C8 as amended: two runs on an identical staged diff both call the model only
\* if neither found a live entry at its cache check (they overlapped before the
\* first cache write, or no earlier run succeeded): a run that finds a live
\* entry calls the model for nothing.
C8_OnlyCacheMissesCallModel ==
  \A a, b \in Runs :
    (/\ a # b /\ ghost[a].checked /\ ghost[b].checked /\ runs[a].key = runs[b].key
     /\ ghost[b].modelCalls > 0) =>
      /\ ~ghost[b].sawLive
      /\ ghost[a].modelCalls > 0 => ~ghost[a].sawLive

\* two overlapping runs on the same diff that both called the model, and one wrote the entry
C8_Witness ==
  \E a, b \in Runs :
    /\ a # b /\ ghost[a].checked /\ ghost[b].checked /\ runs[a].key = runs[b].key
    /\ ghost[a].modelCalls > 0 /\ ghost[b].modelCalls > 0
    /\ Done(a) /\ Outcome(a).via = "model"

\* C13: a run that succeeds on the model path has written its result into the
\* cache, under the key computed from its parsed diffs, when it returns: right
\* after the return a get of that key yields a response whose commitMessage is
\* the returned message.
C13_ModelPathResultIsCached ==
  /\ \A r \in Runs :
       (Done(r) /\ Outcome(r).via = "model") => CacheKeyOf(runs[r].diffs) \in DOMAIN writer
  /\ lastOp.op = "set" =>
       LET r == writer[lastOp.key]
           got == CacheGet(cache, lastOp.key, now)
       IN /\ Done(r) /\ Outcome(r).via = "model"
          /\ lastOp.key = CacheKeyOf(runs[r].diffs)
          /\ got.value # <<>>
          /\ got.value[1].commitMessage = Outcome(r).message

\* a run has just returned on the model path, into a cache that held an entry already
C13_Witness ==
  /\ lastOp.op = "set" /\ lastOp.before # <<>>
  /\ Done(writer[lastOp.key]) /\ Outcome(writer[lastOp.key]).via = "model"

(* ------------------------------------------------------------------ *)
(* Claims about parseDiff                                              *)
(* ------------------------------------------------------------------ *)
\* the records parseDiff returned
Records == IF pure.fn = "parseDiff" THEN {pure.out[i] : i \in DOMAIN pure.out} ELSE {}

\* C14: the changeType of every record parseDiff produces is a function of the
\* lengths of its additions and deletions: 'added' iff additions is non-empty
\* and deletions empty, 'deleted' iff additions is empty and deletions
\* non-empty, 'modified' in every other case.
C14_ChangeTypeFollowsLengths ==
  \A d \in Records :
    /\ d.changeType = "added" <=> (Len(d.additions) > 0 /\ Len(d.deletions) = 0)
    /\ d.changeType = "deleted" <=> (Len(d.additions) = 0 /\ Len(d.deletions) > 0)
    /\ d.changeType = "modified" <=>
         (Len(d.additions) > 0 <=> Len(d.deletions) > 0)

\* a result with a record that has no lines and a record that has lines of both kinds
C14_Witness ==
  /\ \E d \in Records : d.changeType = "modified" /\ d.additions = <<>> /\ d.deletions = <<>>
  /\ \E d \in Records : d.changeType = "modified" /\ d.additions # <<>> /\ d.deletions # <<>>

\* the diff text passed to parseDiff holds no file boundary marker
NoFileBlock == \A i \in DOMAIN pure.diff : pure.diff[i] # DiffMarker

\* C15: for a diff text without any 'diff --git' marker, the empty text
\* included, parseDiff returns the empty sequence.
C15_NoMarkerNoRecords ==
  (pure.fn = "parseDiff" /\ NoFileBlock) => pure.out = <<>>

\* the chunks of the text for which parseDiff produced a record, in order
KeptChunks ==
  SelectSeq(Split(pure.diff, DiffMarker),
            LAMBDA chunk :
              /\ Trim(chunk) # <<>>
              /\ HeaderPath(Split(chunk, NL)[1]) # <<>>
              /\ ~shouldExcludeFile(HeaderPath(Split(chunk, NL)[1])))

\* the first n elements of s, all of s if it has fewer
FirstN(s, n) == SubSeq(s, 1, IF Len(s) < n THEN Len(s) ELSE n)

\* the captured form of the lines of s: without the first character, sanitized
Captured(s) == [k \in DOMAIN s |-> sanitizeLine(Tail(s[k]))]

AdditionLines(chunk) == SelectSeq(Split(chunk, NL), IsAddition)
DeletionLines(chunk) == SelectSeq(Split(chunk, NL), IsDeletion)

\* C16: with cap maxLinesPerFile = N, the additions of every record are the
\* first N (or fewer) addition lines of its chunk in their order, and the
\* deletions the first N (or fewer) deletion lines: at most N each, and the
\* lines beyond the cap have no part in the record.
C16_CapKeepsFirstLines ==
  pure.fn = "parseDiff" =>
    /\ Len(pure.out) = Len(KeptChunks)
    /\ \A i \in DOMAIN pure.out :
         /\ Len(pure.out[i].additions) <= pure.maxLines
         /\ Len(pure.out[i].deletions) <= pure.maxLines
         /\ pure.out[i].additions = Captured(FirstN(AdditionLines(KeptChunks[i]), pure.maxLines))
         /\ pure.out[i].deletions = Captured(FirstN(DeletionLines(KeptChunks[i]), pure.maxLines))

\* a record whose chunk had more addition lines than the cap allows
C16_Witness ==
  /\ pure.fn = "parseDiff" /\ pure.maxLines >= 1
  /\ \E i \in DOMAIN pure.out :
       /\ Len(AdditionLines(KeptChunks[i])) > pure.maxLines
       /\ Len(pure.out[i].additions) = pure.maxLines

\* the lines of a chunk whose first character is c and whose second is not
SecondCharacterLines(chunk, c) ==
  SelectSeq(Split(chunk, NL),
            LAMBDA line : line # <<>> /\ line[1] = c /\ (Len(line) >= 2 => line[2] # c))

\* the lines of a chunk whose first character is c and that do not start with ccc
NotTripleLines(chunk, c) ==
  SelectSeq(Split(chunk, NL),
            LAMBDA line : /\ line # <<>> /\ line[1] = c
                          /\ ~(Len(line) >= 3 /\ line[2] = c /\ line[3] = c))

MaxSizeLimit == 8

\* C24: parseDiff fails fast, returning no records, when the diff text exceeds
\* the upper size bound.
C24_OversizedDiffYieldsNoRecords ==
  \A limit \in 1..MaxSizeLimit :
    (pure.fn = "parseDiff" /\ Len(pure.diff) > limit) => pure.out = <<>>

(* ------------------------------------------------------------------ *)
(* Claims about the prompt templates                                   *)
(* ------------------------------------------------------------------ *)
\* a and b hold the same elements the same number of times
IsPermutation(a, b) ==
  /\ Len(a) = Len(b)
  /\ \A x \in {a[i] : i \in DOMAIN a} \cup {b[i] : i \in DOMAIN b} :
       Cardinality({i \in DOMAIN a : a[i] = x}) = Cardinality({i \in DOMAIN b : b[i] = x})

\* the first 100 characters of a diff text, whitespace collapsed
CollapsedPrefix(diff) ==
  CollapseWhitespace(SubSeq(diff, 1, IF Len(diff) < 100 THEN Len(diff) ELSE 100))

\* C18: generateCacheKey is independent of the order of the file list: for any
\* file sequence that is a permutation of the one passed and any diff text whose
\* first 100 characters equal, after whitespace collapsing, those of the one
\* passed, the key is the key returned.
C18_KeyIgnoresFileOrder ==
  pure.fn = "generateCacheKey" =>
    \A files \in FileLists, diff \in KeyTexts :
      (IsPermutation(files, pure.given) /\ CollapsedPrefix(diff) = CollapsedPrefix(pure.diff)) =>
        generateCacheKey(files, diff) = pure.out

\* a key for unsorted files and a text longer than the preview, which another
\* text with different characters shares
C18_Witness ==
  /\ pure.fn = "generateCacheKey"
  /\ pure.given # Sort(pure.given)
  /\ Len(pure.diff) > PreviewLength
  /\ \E diff \in KeyTexts :
       diff # pure.diff /\ Len(diff) = Len(pure.diff)
       /\ CollapsedPrefix(diff) = CollapsedPrefix(pure.diff)

\* C19: the prompt-template functions are pure: after a call of generateCacheKey
\* or FALLBACK_COMMIT_TEMPLATE the file sequence the caller passed holds the
\* same elements in the same order as before the call.
C19_FileListUnchanged ==
  pure.fn \in {"generateCacheKey", "FALLBACK_COMMIT_TEMPLATE"} => pure.files = pure.given

(* ------------------------------------------------------------------ *)
(* Claims about the validation of model responses                      *)
(* ------------------------------------------------------------------ *)
\* the text parses as JSON into an object with a non-empty type of the
\* enumeration and a non-empty commitMessage
IsValidText(text) ==
  /\ text.json
  /\ DOMAIN text.value = DOMAIN RespA
  /\ text.value.type \in {"feat", "fix", "refactor", "docs", "test", "chore", "style", "perf"}
  /\ text.value.commitMessage # <<>>

\* the responses among the model's replies that are valid
ValidResponses ==
  {reply.text.value : reply \in {x \in env.replies : x.kind = "resolve" /\ IsValidText(x.text)}}

\* the (type, scope, commitMessage, breaking) of the valid responses
ValidParts ==
  {<<v.type, v.scope, v.commitMessage, v.breaking>> : v \in ValidResponses}

\* C20: a model response is accepted by a wrapped model call only if it parses
\* as JSON, has a non-empty type and a non-empty commitMessage and its type is
\* one of feat, fix, refactor, docs, test, chore, style, perf; every other
\* response is rejected with InvalidResponseError and never reaches
\* consolidation, the returned analysis or the cache.
C20_OnlyValidResponsesAccepted ==
  \A r \in Runs :
    /\ ghost[r].settled # <<>> =>
         LET x == ghost[r].settled[1]
         IN IF IsValidText(x.text)
            THEN x.res.ok => x.res.val = x.text.value
            ELSE ~x.res.ok /\ x.res.val.cls = "InvalidResponseError"
    /\ \A s \in DOMAIN calls[r] :
         calls[r][s].outer = "ok" => calls[r][s].val[1] \in ValidResponses
    /\ \A i \in DOMAIN runs[r].results :
         LET a == runs[r].results[i]
         IN <<a.type, a.scope, a.description, a.breaking>> \in ValidParts
    /\ (runs[r].outcome # <<>> /\ runs[r].outcome[1].via = "model") =>
         LET o == runs[r].outcome[1]
             t == o.analysis.changeTypes[1]
         IN /\ <<t.type, t.scope, t.description, o.analysis.breakingChanges>> \in ValidParts
            /\ o.message = t.description
    /\ \A i \in DOMAIN cache :
         LET c == cache[i].response
         IN <<c.type, c.scope, c.commitMessage, c.breaking>> \in ValidParts

\* a run whose model answered with JSON of the wrong shape: a per-file call was
\* refused and retried, a later response was accepted, and the result is stored
C20_Witness ==
  \E r \in Runs :
    /\ env.replies \in InvalidModes
    /\ ghost[r].modelCalls > 2
    /\ runs[r].outcome # <<>> /\ runs[r].outcome[1].via = "model"
    /\ cache # <<>>

(* ------------------------------------------------------------------ *)
(* Claims about the breaking flag                                      *)
(* ------------------------------------------------------------------ *)
\* C21: in the analysis analyzeCommit returns on the model path,
\* breakingChanges is true whenever at least one per-file model response of
\* the run flagged breaking.
C21_BreakingFlagOfAnyFileIsKept ==
  \A r \in Runs :
    (Done(r) /\ Outcome(r).via = "model"
       /\ \E i \in DOMAIN runs[r].results : runs[r].results[i].breaking) =>
      Outcome(r).analysis.breakingChanges

(* ------------------------------------------------------------------ *)
(* Claims about writeReviewToMarkdown                                  *)
(* ------------------------------------------------------------------ *)
\* the path has a segment '..' between its separators
HasParentSegment(filePath) ==
  \E i \in DOMAIN Split(filePath, "/") : Split(filePath, "/")[i] = <<".", ".">>

\* C22: writeReviewToMarkdown rejects a filePath that contains a parent-directory
\* segment '..' before any side effect: writeFile is never invoked for such a
\* path, and the call ends in an error.
C22_TraversalRejectedBeforeWrite ==
  (pure.fn = "writeReviewToMarkdown" /\ HasParentSegment(pure.filePath)) =>
    /\ pure.writeFile = <<>>
    /\ pure.pc = "done"
    /\ pure.out[1].status = "rejected"

\* a call with a path that climbs out of a directory has ended
C22_Witness ==
  /\ pure.fn = "writeReviewToMarkdown"
  /\ pure.filePath = <<"r", "/", ".", ".", "/">>
  /\ pure.pc = "done"

(* ------------------------------------------------------------------ *)
(* Claims about termination                                            *)
(* ------------------------------------------------------------------ *)
\* the outcome of a run is one of the terminal outcomes
IsTerminalOutcome(o) ==
  \/ o.status = "resolved" /\ o.via \in {"model", "cache", "nochanges", "fallback"}
  \/ o.status = "rejected"

\* a run has an outcome exactly when it has settled, and it has one
OneOutcome ==
  \A r \in Runs :
    /\ Done(r) <=> runs[r].outcome # <<>>
    /\ Done(r) => Len(runs[r].outcome) = 1 /\ IsTerminalOutcome(Outcome(r))

\* a run that has settled stays as it settled
SettledStep == \A r \in Runs : Done(r) => runs'[r] = runs[r]

\* C23: provided every diff-retrieval call settles, every analyzeCommit run
\* eventually settles in exactly one terminal outcome (a message/analysis pair
\* from the model, the cache, 'no changes' or the fallback, or a rejection with
\* an error), even if a model call never settles.
C23_EveryRunSettlesOnce ==
  /\ \A r \in Runs : (runs[r].pc # "idle") ~> Done(r)
  /\ []OneOutcome
  /\ [][SettledStep]_vars

\* a run has settled although none of the model calls it waited for ever did
C23_Witness ==
  \E r \in Runs :
    /\ Done(r)
    /\ ghost[r].timerWon
    /\ calls[r] # <<>>
    /\ \A s \in DOMAIN calls[r] : calls[r][s].inner = "calling" /\ calls[r][s].attempt = 1

(* ------------------------------------------------------------------ *)
(* Claims about batching and retries                                   *)
(* ------------------------------------------------------------------ *)
\* the wrapped calls of run r that are in flight, those of a batch that the
\* run has left through a rejection included
InFlight(r) == {s \in DOMAIN calls[r] : calls[r][s].outer = "pending"}

\* the results of run r are those of its first diffs, in diff order
InDiffOrder(r) ==
  /\ Len(runs[r].results) <= Len(runs[r].diffs)
  /\ \A k \in DOMAIN runs[r].results : runs[r].results[k].file = runs[r].diffs[k].filePath

\* C25: the per-file requests of a run are issued in batches of at most 3 in
\* diff order: at most 3 wrapped per-file calls are in flight at any moment,
\* and a batch is issued only when every request of the batches before it has
\* resolved successfully.
C25_BatchesOfThreeInOrder ==
  \A r \in Runs :
    /\ Cardinality(InFlight(r)) <= 3
    /\ InDiffOrder(r)
    /\ runs[r].pc = "batch" =>
         /\ Len(calls[r]) <= 3
         /\ runs[r].i % 3 = 0
         /\ Len(runs[r].results) = runs[r].i
         /\ runs[r].i + Len(calls[r]) <= Len(runs[r].diffs)
    /\ runs[r].pc = "pause" => Len(runs[r].results) = runs[r].i + 3

\* the second batch of a run is in flight
C25_Witness ==
  \E r \in Runs : runs[r].pc = "batch" /\ runs[r].i = 3 /\ InFlight(r) # {}

\* run r has left a batch through a rejection: it collected fewer results than diffs
LeftBatch(r) ==
  /\ runs[r].pc \in {"fallback", "done"}
  /\ calls[r] # <<>>
  /\ Len(runs[r].results) < Len(runs[r].diffs)

\* C26: analyzeCommit never leaves a batch (to the next batch, to consolidation,
\* to the fallback path or to rejecting) while a model call or a retry of that
\* batch is still in flight, so the model collaborator is never invoked after
\* analyzeCommit has settled.
C26_NoCallInFlightOnceBatchIsLeft ==
  \A r \in Runs :
    /\ LeftBatch(r) =>
         \A s \in DOMAIN calls[r] : calls[r][s].inner \notin {"calling", "backoff"}
    /\ runs[r].pc = "pause" => calls[r] = <<>>
    /\ runs[r].pc = "final" => Len(calls[r]) = 1

\* the attempts of the wrapped calls: between one and two, a backoff only before
\* the second, of 100ms x 2^attempt
AttemptsBounded ==
  \A r \in Runs : \A s \in DOMAIN calls[r] :
    LET w == calls[r][s]
    IN /\ w.attempt \in 1..2
       /\ w.inner = "backoff" => w.attempt < 2 /\ w.wait = 100 * 2 ^ w.attempt
       /\ w.attempt > 1 => w.wait = 100 * 2 ^ (w.attempt - 1)

\* a wrapped call of run r that the step keeps (the run dispatches no new calls)
Kept(r, s) ==
  /\ s \in DOMAIN calls[r] /\ s \in DOMAIN calls'[r]
  /\ runs'[r].pc = runs[r].pc \/ runs'[r].pc \in {"fallback", "done"}

\* a further attempt follows a failed attempt and its backoff only, and nothing
\* follows a successful attempt
AttemptStep ==
  \A r \in Runs : \A s \in Slots :
    Kept(r, s) =>
      LET w == calls[r][s]
          v == calls'[r][s]
      IN /\ v.attempt # w.attempt =>
              w.inner = "backoff" /\ v.attempt = w.attempt + 1 /\ v.inner = "calling"
         /\ v.inner = "backoff" /\ w.inner # "backoff" => w.inner = "calling"
         /\ w.inner = "ok" => v.inner = "ok" /\ v.attempt = w.attempt

\* C27: each wrapped model call invokes the model collaborator at least once
\* and at most MAX_RETRIES (2) times in total; a further attempt is made only
\* after the previous attempt failed and only after a backoff of
\* 100ms x 2^attempt, and no attempt follows a successful one.
C27_AtMostTwoAttemptsWithBackoff ==
  []AttemptsBounded /\ [][AttemptStep]_vars

\* a wrapped call whose first attempt failed and whose second succeeded
C27_Witness ==
  \E r \in Runs : \E s \in DOMAIN calls[r] :
    calls[r][s].attempt = 2 /\ calls[r][s].inner = "ok" /\ calls[r][s].wait = 200

\* the model answers every call it settles with a valid response, so that no
\* attempt of a run that finishes on the model path has failed
EveryAttemptSucceeds ==
  \A reply \in env.replies : reply.kind = "resolve" /\ IsValidText(reply.text)

\* C28: on a run with n parsed diffs that misses the cache and in which every
\* model call succeeds on its first attempt, the model collaborator is invoked
\* exactly n + 1 times: n single-file requests, then exactly one multi-change
\* request, issued only after all per-file requests of all batches have resolved.
C28_ExactlyNPlusOneCalls ==
  \A r \in Runs :
    (EveryAttemptSucceeds /\ runs[r].cached = <<>>) =>
      LET n == Len(runs[r].diffs)
      IN /\ runs[r].pc \in {"batch", "pause"} => ghost[r].modelCalls <= n
         /\ runs[r].pc = "final" =>
              /\ Len(runs[r].results) = n
              /\ ghost[r].modelCalls = n + 1
         /\ (Done(r) /\ Outcome(r).via = "model") =>
              /\ Len(runs[r].results) = n
              /\ ghost[r].modelCalls = n + 1

\* a run on four diffs, of two batches, has finished on the model path
C28_Witness ==
  \E r \in Runs :
    /\ EveryAttemptSucceeds
    /\ Done(r) /\ Outcome(r).via = "model"
    /\ Len(runs[r].diffs) = 4
    /\ ghost[r].modelCalls = 5

(* ------------------------------------------------------------------ *)
(* Claims about consolidateAnalysis                                    *)
(* ------------------------------------------------------------------ *)
\* the categories of the analyses that are the first of their kind, in order,
\* for a given notion of kind
FirstOfKind(as, Kind(_)) ==
  LET positions == [i \in DOMAIN as |-> i]
      firsts == SelectSeq(positions, LAMBDA i : \A j \in 1..(i - 1) : Kind(as[j]) # Kind(as[i]))
  IN [k \in DOMAIN firsts |->
        [type |-> as[firsts[k]].type, scope |-> as[firsts[k]].scope,
         description |-> as[firsts[k]].description]]

\* the (type, scope) pair as it stands
PairOf(a) == <<a.type, a.scope>>

\* the (type, scope) pair with an absent and an empty scope taken as the same
PairOrNoScope(a) == <<a.type, IF a.scope \in {undefined, ""} THEN "" ELSE a.scope>>

\* C30 (as stated): consolidateAnalysis returns exactly one ChangeCategory per
\* distinct (type, scope) pair of the per-file analyses, in order of first
\* occurrence, with the description of the first analysis of that pair; files
\* is the per-file paths in input order.
C30_OneCategoryPerPair ==
  pure.fn = "consolidateAnalysis" =>
    /\ pure.out[1].changeTypes = FirstOfKind(pure.given, PairOf)
    /\ pure.out[1].files = [i \in DOMAIN pure.given |-> pure.given[i].file]

\* C30 (amended): the same, with the pairs compared after an absent scope and
\* an empty scope have been taken as the same scope.
C30_OneCategoryPerPairOrNoScope ==
  pure.fn = "consolidateAnalysis" =>
    /\ pure.out[1].changeTypes = FirstOfKind(pure.given, PairOrNoScope)
    /\ pure.out[1].files = [i \in DOMAIN pure.given |-> pure.given[i].file]

\* three analyses, the third of the pair of the first with another description
C30_Witness ==
  /\ pure.fn = "consolidateAnalysis"
  /\ Len(pure.given) = 3
  /\ PairOf(pure.given[1]) = PairOf(pure.given[3])
  /\ PairOrNoScope(pure.given[1]) # PairOrNoScope(pure.given[2])
  /\ pure.given[1].description # pure.given[3].description
  /\ Len(pure.out[1].changeTypes) = 2

\* the elements of a sequence
Range(xs) == {xs[i] : i \in DOMAIN xs}

\* C31: the impactedAreas that consolidateAnalysis produces is the
\* de-duplicated set of the non-empty scopes of the per-file analyses: no
\* element occurs twice, no element is the empty string or an absent scope,
\* and every non-empty scope that occurs among the analyses is an element.
C31_ImpactedAreasAreTheNonEmptyScopes ==
  pure.fn = "consolidateAnalysis" =>
    LET areas == pure.out[1].impactedAreas
        scopes == {pure.given[i].scope : i \in DOMAIN pure.given}
    IN /\ \A i, j \in DOMAIN areas : areas[i] = areas[j] => i = j
       /\ "" \notin Range(areas)
       /\ undefined \notin Range(areas)
       /\ scopes \ {"", undefined} \subseteq Range(areas)

(* ------------------------------------------------------------------ *)
(* Claims about the order of eviction                                  *)
(* ------------------------------------------------------------------ *)
\* the position of the earliest-inserted entry among those of minimal hitCount
FirstOfTies(c) ==
  CHOOSE i \in DOMAIN c :
    /\ c[i].hitCount = MinHits(c)
    /\ \A j \in 1..(i - 1) : c[j].hitCount # MinHits(c)

\* the keys a set has evicted: those no longer stored, and the key that was
\* set when it has been deleted and inserted again (it has moved behind an
\* entry it preceded)
EvictedKeys(before, after, key) ==
  {k \in CacheKeys(before) :
     \/ ~CacheHas(after, k)
     \/ /\ k = key
        /\ \E e \in CacheKeys(before) \cap CacheKeys(after) :
             /\ CacheIndex(before, k) < CacheIndex(before, e)
             /\ CacheIndex(after, k) > CacheIndex(after, e)}

\* C32: LFU eviction is deterministic: the entry a set evicts is, among the
\* entries tied at the minimal hitCount, the first in the iteration order of
\* the store (the earliest-inserted key still present); the evicted key is
\* thereby determined by the store as the operations so far have left it.
C32_EvictsFirstOfTies ==
  lastOp.op = "set" =>
    \A k \in EvictedKeys(lastOp.before, cache, lastOp.key) :
      k = lastOp.before[FirstOfTies(lastOp.before)].key

\* a set on a full store of two entries tied at the minimum has evicted the
\* one inserted first and kept the other
C32_Witness ==
  /\ lastOp.op = "set"
  /\ Len(lastOp.before) = maxSize
  /\ \A i \in DOMAIN lastOp.before : lastOp.before[i].hitCount = MinHits(lastOp.before)
  /\ EvictedKeys(lastOp.before, cache, lastOp.key) = {lastOp.before[1].key}
  /\ CacheHas(cache, lastOp.before[2].key)

(* ------------------------------------------------------------------ *)
(* Claims about what analyzeCommit changes in the cache                *)
(* ------------------------------------------------------------------ *)
\* the step in which a run returns from the model path, having set its entry
SetByModelRun ==
  \E r \in Runs :
    /\ runs[r].pc = "final" /\ runs'[r].pc = "done"
    /\ runs'[r].outcome[1].status = "resolved"
    /\ runs'[r].outcome[1].via = "model"
    /\ lastOp'.op = "set" /\ lastOp'.key = runs[r].key

\* the step in which the cache check of a run hits: the entry under the run's
\* key has another hitCount and timestamp, and nothing else has changed
HitRefresh ==
  \E r \in Runs :
    /\ runs[r].pc = "diff" /\ runs'[r].pc = "checked"
    /\ runs'[r].cached # <<>>
    /\ Len(cache') = Len(cache)
    /\ \A i \in DOMAIN cache :
         IF cache[i].key = runs'[r].key
         THEN cache'[i] = [cache[i] EXCEPT !.hitCount = cache'[i].hitCount,
                                           !.timestamp = cache'[i].timestamp]
         ELSE cache'[i] = cache[i]

\* the step in which the cache check of a run finds the entry under its key
\* older than the time-to-live: the entry is removed and the check misses
ExpiredRemoval ==
  \E r \in Runs :
    /\ runs[r].pc = "diff" /\ runs'[r].pc = "checked"
    /\ runs'[r].cached = <<>>
    /\ CacheHas(cache, runs'[r].key)
    /\ now - CacheEntry(cache, runs'[r].key).timestamp > ttlMs
    /\ cache' = MapDelete(cache, runs'[r].key)

\* every entry was stored by a run that has returned from the model path
StoredByModelRuns ==
  \A k \in DOMAIN writer : Done(writer[k]) /\ Outcome(writer[k]).via = "model"

\* C33 (as stated): the cache is modified only by a successful model-path
\* run: a run that ends in the 'no changes' result, in the fallback result or
\* in a rejection performs no cache set, and a run served from the cache
\* changes only the hitCount and timestamp of the entry it hit.
C33_OnlyModelRunsAndHitsChangeTheCache ==
  /\ []StoredByModelRuns
  /\ [][/\ lastOp'.op = "set" => SetByModelRun
        /\ cache' # cache => SetByModelRun \/ HitRefresh]_vars

\* C33 (amended): the same, except that the cache check of any run removes
\* the entry stored under the run's key when that entry is older than the
\* time-to-live, whatever the run ends in.
C33_OnlyModelRunsHitsAndExpiryChangeTheCache ==
  /\ []StoredByModelRuns
  /\ [][/\ lastOp'.op = "set" => SetByModelRun
        /\ cache' # cache => SetByModelRun \/ HitRefresh \/ ExpiredRemoval]_vars

\* the cache check of a run has just removed the expired entry that the other
\* run, returned from the model path, had stored
C33_Witness ==
  \E r \in Runs :
    /\ runs[r].pc = "checked" /\ runs[r].cached = <<>>
    /\ lastOp.op = "get" /\ lastOp.key = runs[r].key
    /\ CacheHas(lastOp.before, lastOp.key) /\ ~CacheHas(cache, lastOp.key)
    /\ \E q \in Runs \ {r} : Done(q) /\ Outcome(q).via = "model"

(* ------------------------------------------------------------------ *)
(* Claims about the fallback branch                                    *)
(* ------------------------------------------------------------------ *)
\* run r has entered the fallback branch of the catch block
OnFallbackPath(r) ==
  /\ ghost[r].caught # <<>>
  /\ ghost[r].caught[1].cls \in {"LLMTimeoutError", "InvalidResponseError"}

\* C34: on the fallback path analyzeCommit retrieves the staged diff a second
\* time (two retrievals by a run on that path, one by every other run); the
\* fallback message lists the files of the second retrieval; and when the
\* second retrieval fails, analyzeCommit rejects with that failure and returns
\* no fallback result.
C34_FallbackRetrievesDiffAgain ==
  \A r \in Runs :
    /\ IF OnFallbackPath(r)
       THEN ghost[r].diffCalls = 2
       ELSE ghost[r].diffCalls = (IF runs[r].pc = "idle" THEN 0 ELSE 1)
    /\ (Done(r) /\ OnFallbackPath(r)) =>
         IF ghost[r].gitError = <<>>
         THEN /\ Outcome(r).status = "resolved" /\ Outcome(r).via = "fallback"
              /\ ghost[r].refetched # <<>>
              /\ \E type \in ChangeTypes :
                   Outcome(r).message =
                     <<type, ": update ">> \o Join(ghost[r].refetched[1], ", ")
              /\ Outcome(r).analysis.files = ghost[r].refetched[1]
         ELSE /\ Outcome(r).status = "rejected"
              /\ Outcome(r).error.cls = "Error"
              /\ Outcome(r).error.message =
                   <<"Failed to get staged diff: ">> \o ghost[r].gitError[1].message
    /\ (Done(r) /\ Outcome(r).status = "resolved" /\ Outcome(r).via = "fallback") =>
         OnFallbackPath(r)

\* a run has returned the fallback result for a file list, read at the second
\* retrieval, that differs from the files it had analysed, while another run
\* on the fallback path was rejected with the failure of its second retrieval
C34_Witness ==
  \E r, q \in Runs :
    /\ Done(r) /\ Outcome(r).via = "fallback"
    /\ ghost[r].refetched[1] # <<>>
    /\ ghost[r].refetched[1] # FilePaths(runs[r].diffs)
    /\ Done(q) /\ OnFallbackPath(q) /\ Outcome(q).status = "rejected"

(* ------------------------------------------------------------------ *)
(* Claims about the result served from the cache                       *)
(* ------------------------------------------------------------------ *)
\* C35: a result served from the cache equals the result of the run that
\* populated the entry: when a run returns (message, analysis) from the model
\* path and a later run on the same diff hits the entry it stored, the second
\* run's message, files, summary, impactedAreas, changeTypes and
\* breakingChanges equal those of the first.
C35_CachedResultEqualsPopulatingResult ==
  \A b \in Runs :
    (ghost[b].sawLive /\ Done(b)) =>
      LET a == ghost[b].sawWriter
      IN (a \in Runs /\ runs[a].diffs = runs[b].diffs) =>
           /\ Outcome(b).status = "resolved" /\ Outcome(b).via = "cache"
           /\ Outcome(a).status = "resolved" /\ Outcome(a).via = "model"
           /\ Outcome(b).message = Outcome(a).message
           /\ Outcome(b).analysis.files = Outcome(a).analysis.files
           /\ Outcome(b).analysis.summary = Outcome(a).analysis.summary
           /\ Outcome(b).analysis.impactedAreas = Outcome(a).analysis.impactedAreas
           /\ Outcome(b).analysis.changeTypes = Outcome(a).analysis.changeTypes
           /\ Outcome(b).analysis.breakingChanges = Outcome(a).analysis.breakingChanges

\* a run has been served the entry of a run on the same diff whose result has
\* a summary and an impacted area
C35_Witness ==
  \E b \in Runs :
    /\ ghost[b].sawLive /\ Done(b) /\ Outcome(b).via = "cache"
    /\ ghost[b].sawWriter \in Runs \ {b}
    /\ runs[ghost[b].sawWriter].diffs = runs[b].diffs
    /\ Outcome(b).analysis.summary # ""
    /\ Outcome(b).analysis.impactedAreas # <<>>

(* ------------------------------------------------------------------ *)
(* Claims about set on a stored key                                    *)
(* ------------------------------------------------------------------ *)
\* C36: set on a key that is already present resets that entry's hitCount to
\* 1 and its timestamp to now; when the store is at capacity the set still
\* evicts one entry of minimal hitCount first, although no new key is added:
\* if the evicted key differs from the key being set, the store ends with
\* maxSize - 1 entries.
C36_SetOnStoredKeyResetsAndStillEvicts ==
  (lastOp.op = "set" /\ CacheHas(lastOp.before, lastOp.key)) =>
    /\ CacheHas(cache, lastOp.key)
    /\ CacheEntry(cache, lastOp.key).hitCount = 1
    /\ CacheEntry(cache, lastOp.key).timestamp = now
    /\ Len(lastOp.before) >= maxSize =>
         \E i \in DOMAIN lastOp.before :
           LET victim == lastOp.before[i]
           IN /\ victim.hitCount = MinHits(lastOp.before)
              /\ CacheKeys(cache) =
                   CacheKeys(MapDelete(lastOp.before, victim.key)) \cup {lastOp.key}
              /\ victim.key # lastOp.key => Len(cache) = maxSize - 1

(* ------------------------------------------------------------------ *)
(* Claims about expired entries                                        *)
(* ------------------------------------------------------------------ *)
\* the entry is older than the time-to-live at time t
IsExpired(entry, t) == t - entry.timestamp > ttlMs

\* the keys stored before the last operation and no longer stored after it
RemovedKeys == CacheKeys(lastOp.before) \ CacheKeys(cache)

\* C37: an expired entry is removed only by a get on its own key or by being
\* chosen as the victim of minimal hitCount of a set at capacity: set never
\* purges expired entries (below capacity it removes nothing, at capacity at
\* most the one victim), so an expired entry keeps counting toward capacity,
\* and a set at capacity can evict a live entry of lower hitCount while an
\* expired entry of higher hitCount stays stored.
C37_ExpiredEntriesGoOnlyByGetOrEviction ==
  lastOp.op \in {"get", "set"} =>
    /\ \A k \in RemovedKeys :
         IsExpired(CacheEntry(lastOp.before, k), now) =>
           \/ lastOp.op = "get" /\ lastOp.key = k
           \/ /\ lastOp.op = "set"
              /\ Len(lastOp.before) >= maxSize
              /\ k = lastOp.before[FirstOfTies(lastOp.before)].key
    /\ lastOp.op = "set" =>
         /\ Len(lastOp.before) < maxSize => RemovedKeys = {}
         /\ Cardinality(RemovedKeys) <= 1
         /\ \A k \in CacheKeys(lastOp.before) \ (RemovedKeys \cup {lastOp.key}) :
              CacheEntry(cache, k) = CacheEntry(lastOp.before, k)

\* a set at capacity has evicted a live entry while an expired entry of higher
\* hitCount is still stored
C37_Witness ==
  /\ lastOp.op = "set"
  /\ Len(lastOp.before) >= maxSize
  /\ \E k \in RemovedKeys, e \in CacheKeys(cache) \ {lastOp.key} :
       /\ ~IsExpired(CacheEntry(lastOp.before, k), now)
       /\ CacheHas(lastOp.before, e)
       /\ IsExpired(CacheEntry(cache, e), now)
       /\ CacheEntry(cache, e).hitCount > CacheEntry(lastOp.before, k).hitCount

====
